---------------------------- MODULE Spec2Model ----------------------------
(***************************************************************************)
(* A model of the boundary-to-measurement pipeline of cell_edge_analysis:  *)
(* contour extraction and conditioning (EdgeDetector, EdgeData), the       *)
(* window validity checks and intensity sampling (FluorescenceAnalyzer,    *)
(* CoordinatedAnalysis), curvature by circle fitting (CurvatureAnalyzer),  *)
(* the spline curvature of curvature.py, and the batch loop and the file   *)
(* loading of FilePanel.                                                   *)
(*                                                                         *)
(* Conventions.  A point is a pair <<x, y>> of integer pixel coordinates.  *)
(* A contour is a sequence of points; the empty sequence stands for        *)
(* Python's None wherever a contour or a result is optional.  A binary     *)
(* mask is a set of filled rectangles (its connected components), a pixel  *)
(* being set when one of them holds it.  A unit vector is kept as an       *)
(* integer direction <<dx, dy>>; its length Sq = dx*dx + dy*dy is divided  *)
(* out exactly where the code converts a coordinate to int.                *)
(***************************************************************************)
EXTENDS Integers, Sequences, FiniteSets, TLC

VARIABLES
    \* --- shared ---
    params,           \* AnalysisParameters
    \* --- one frame, analysed by the two analyzers (SpecJoint) ---
    edge_data,        \* EdgeData: [contour, smoothed_contour]
    cell_mask,        \* ImageData of the mask: [shape, comps]
    fluor_data,       \* ImageData of the fluorescence: [shape, kind]
    fa_valid_indices, \* FluorescenceAnalyzer.valid_indices
    fluor_result,     \* what calculate_intensities returned
    ca_valid_indices, \* CurvatureAnalyzer.valid_indices
    curv_result,      \* what calculate_curvature returned
    coord_result,     \* the points check_point_validity accepted
    jpc,              \* what has run on the frame
    \* --- FilePanel (SpecBatch) ---
    cell_stack,       \* self.cell_stack: [shape, frames] or None
    fluor_stack,      \* self.fluor_stack: [shape, frames] or None
    current_frame,    \* self.current_frame, the value of frame_spinner
    spinner_max,      \* frame_spinner.maximum()
    emitted,          \* the signals and dialogs of the last handler
    loads,            \* files opened so far
    bpc,              \* analyze_stack: idle, running, results, empty, failed
    frame,            \* the loop variable of analyze_stack
    total_frames,     \* len(self.cell_stack) when the loop began
    all_curvatures,   \* one entry per frame that gave curvatures
    all_intensities,  \* one entry per frame that gave intensities
    all_correlations, \* one entry per frame that gave both
    processed,        \* the frames the loop has handled: inputs and outcome
    exported,         \* what the ResultsWindow of the run has written
    \* --- EdgeDetector and detect_cell_edge (SpecEdge) ---
    contours,         \* EdgeDetector.contours: frame index -> contour
    smoothed_contours,\* EdgeDetector.smoothed_contours: frame index -> contour
    smoothing_window, \* EdgeDetector.smoothing_window
    edge_result,      \* the last call and what it returned
    \* --- the spline CurvatureAnalyzer of curvature.py (SpecSpline) ---
    curvature,        \* self.curvature: frame index -> curvature array
    spline_contours,  \* self.smoothed_contours: frame index -> evaluated spline
    spline_result,    \* what calculate_curvature returned
    \* --- TiffHandler (SpecTiff) ---
    tiff_handler,     \* [cell_stack, piezo_stack, current_frame, n_frames]
    tiff_result,      \* the last call and what it returned
    \* --- sampling, windows and the circle fit, call by call (SpecFit) ---
    probe             \* the call made and what it returned

jointVars == <<edge_data, cell_mask, fluor_data, fa_valid_indices,
               fluor_result, ca_valid_indices, curv_result, coord_result, jpc>>

panelVars == <<cell_stack, fluor_stack, current_frame, spinner_max, emitted, loads>>

loopVars == <<bpc, frame, total_frames, all_curvatures, all_intensities,
              all_correlations, processed, exported>>

batchVars == <<panelVars, loopVars>>

edgeVars == <<contours, smoothed_contours, smoothing_window, edge_result>>

splineVars == <<curvature, spline_contours, spline_result>>

tiffVars == <<tiff_handler, tiff_result>>

vars == <<params, jointVars, batchVars, edgeVars, splineVars, tiffVars, probe>>

\* What an operation on one part of the program leaves alone.
notJoint == <<batchVars, edgeVars, splineVars, tiffVars, probe>>

notBatch == <<jointVars, edgeVars, splineVars, tiffVars, probe>>

notEdge == <<params, batchVars, splineVars, tiffVars, probe>>

notSpline == <<params, jointVars, batchVars, edgeVars, tiffVars, probe>>

-----------------------------------------------------------------------------
(* Bounds and program constants *)

\* Image side of the square test images, in pixels.
ImageSize == 64
\* fluorescence_analyzer.py:36, coordinated_analysis.py:35
border_margin == 20
\* The test distance of the inward check, fluorescence_analyzer.py:121.
test_dist == 5
\* EdgeDetector.detect_edges, edge_detection.py:127
min_size == 100

None == <<>>

-----------------------------------------------------------------------------
(* Integer helpers *)

Abs(n) == IF n < 0 THEN -n ELSE n

Min2(a, b) == IF a < b THEN a ELSE b

Max2(a, b) == IF a > b THEN a ELSE b

\* floor(m / (2 * sqrt(s))) for m >= 0, s >= 1.
RootFloor(m, s) ==
    CHOOSE k \in 0..m : 4 * s * k * k <= m * m /\ 4 * s * (k + 1) * (k + 1) > m * m

\* ceil(m / (2 * sqrt(s))) for m >= 0, s >= 1.
RootCeil(m, s) ==
    LET k == RootFloor(m, s) IN IF 4 * s * k * k = m * m THEN k ELSE k + 1

\* numpy's astype(int) of the float c + m / (2 * sqrt(s)): truncation
\* towards zero (c an integer >= 0).
AsInt(c, m, s) ==
    IF m >= 0 THEN c + RootFloor(m, s)
    ELSE IF RootCeil(-m, s) <= c THEN c - RootCeil(-m, s)
         ELSE c - RootFloor(-m, s)

RECURSIVE SeqSum(_)
SeqSum(s) == IF s = <<>> THEN 0 ELSE Head(s) + SeqSum(Tail(s))

\* np.array(...) of a list built element by element: the sequence itself.
AsArray(s) == SelectSeq(s, LAMBDA e : TRUE)

\* The elements of s that satisfy Keep, in order (a boolean-mask selection).
RECURSIVE SelectIdx(_, _)
SelectIdx(s, keep) ==
    IF s = <<>> THEN <<>>
    ELSE (IF Head(keep) THEN <<Head(s)>> ELSE <<>>) \o SelectIdx(Tail(s), Tail(keep))

-----------------------------------------------------------------------------
(* Images *)

\* A rectangle component [x0, x1, y0, y1], both ends included.
Rect(x0, x1, y0, y1) == [x0 |-> x0, x1 |-> x1, y0 |-> y0, y1 |-> y1]

RectArea(r) == (r.x1 - r.x0 + 1) * (r.y1 - r.y0 + 1)

InRect(r, x, y) == r.x0 <= x /\ x <= r.x1 /\ r.y0 <= y /\ y <= r.y1

\* cell_mask[y, x] > 0
MaskAt(mask, x, y) == \E r \in mask.comps : InRect(r, x, y)

\* shape = <<rows, cols>> as numpy has it.
InImage(shape, x, y) == 0 <= x /\ x < shape[2] /\ 0 <= y /\ y < shape[1]

\* fluor_image[y, x]: a uniform image, or one that is bright on the cell.
FluorAt(fluor, mask, x, y) ==
    IF fluor.kind = "uniform" THEN 100
    ELSE IF MaskAt(mask, x, y) THEN 100 ELSE 10

-----------------------------------------------------------------------------
(* Contours *)

\* contour[idx] with Python's 0-based index.
At(contour, idx) == contour[idx + 1]

\* What cv2.findContours(RETR_EXTERNAL, CHAIN_APPROX_NONE) followed by
\* squeeze() gives for a filled rectangle at least two pixels wide and high:
\* its border pixels, from the top-left one down the left side, along the
\* bottom, up the right side and back along the top.
RectContour(r) ==
    LET a == r.y1 - r.y0
        b == r.x1 - r.x0
    IN [i \in 1..(2 * a + 2 * b) |->
          LET k == i - 1 IN
          IF k <= a THEN <<r.x0, r.y0 + k>>
          ELSE IF k <= a + b THEN <<r.x0 + (k - a), r.y1>>
          ELSE IF k <= 2 * a + b THEN <<r.x1, r.y1 - (k - a - b)>>
          ELSE <<r.x1 - (k - 2 * a - b), r.y0>>]

\* cv2.contourArea of that contour.
ContourArea(r) == (r.x1 - r.x0) * (r.y1 - r.y0)

\* np.linspace(0, n_points - 1, n_samples, dtype=int)
Linspace(n_points, n_samples) ==
    IF n_samples = 0 THEN <<>>
    ELSE IF n_samples = 1 THEN <<0>>
    ELSE [i \in 1..n_samples |-> ((i - 1) * (n_points - 1)) \div (n_samples - 1)]

\* np.arange(idx - half, idx + half + 1) % n_points
SegmentIndices(idx, segment_length, n_points) ==
    LET half_segment == segment_length \div 2
    IN [j \in 1..(2 * half_segment + 1) |-> (idx - half_segment + (j - 1)) % n_points]

\* points[indices]
Take(points, indices) == [j \in 1..Len(indices) |-> At(points, indices[j])]

-----------------------------------------------------------------------------
(* The sampling window of one point *)

\* The pixels cv2.fillPoly sets for the quadrilateral q: the grid points of
\* the closed convex polygon.
Cross(p, q, x, y) == (q[1] - p[1]) * (y - p[2]) - (q[2] - p[2]) * (x - p[1])

FillPoly(q) ==
    LET xs == {q[i][1] : i \in 1..4}
        ys == {q[i][2] : i \in 1..4}
        lox == CHOOSE v \in xs : \A w \in xs : v <= w
        hix == CHOOSE v \in xs : \A w \in xs : v >= w
        loy == CHOOSE v \in ys : \A w \in ys : v <= w
        hiy == CHOOSE v \in ys : \A w \in ys : v >= w
        nxt(i) == IF i = 4 THEN 1 ELSE i + 1
    IN {pt \in (lox..hix) \X (loy..hiy) :
          \/ \A i \in 1..4 : Cross(q[i], q[nxt(i)], pt[1], pt[2]) >= 0
          \/ \A i \in 1..4 : Cross(q[i], q[nxt(i)], pt[1], pt[2]) <= 0}

\* The candidate normal of a segment, <<-tangent_y, tangent_x>>, not yet
\* normalised.
SegmentNormal(segment) ==
    LET tangent == <<segment[Len(segment)][1] - segment[1][1],
                     segment[Len(segment)][2] - segment[1][2]>>
    IN <<-tangent[2], tangent[1]>>

\* (current + normal * dist).astype(int) for the direction n of length sqrt(s).
StepAlong(current, n, s, dist) ==
    <<AsInt(current[1], 2 * dist * n[1], s), AsInt(current[2], 2 * dist * n[2], s)>>

\* "Check if normal points into the cell": the candidate is flipped when its
\* test point is in the mask image and off the mask, and kept otherwise.
InwardNormal(current, n, s, mask) ==
    LET test_point == StepAlong(current, n, s, test_dist)
    IN IF InImage(mask.shape, test_point[1], test_point[2])
          /\ ~MaskAt(mask, test_point[1], test_point[2])
       THEN <<-n[1], -n[2]>>
       ELSE n

\* rect_coords: the four corners of the window, converted to int.
RectCoords(current, normal, s, p) ==
    LET w == p.vector_width
        d == p.vector_depth
        cx == current[1]
        cy == current[2]
        nx == normal[1]
        ny == normal[2]
    IN << <<AsInt(cx, ny * w, s),              AsInt(cy, -nx * w, s)>>,
          <<AsInt(cx, -ny * w, s),             AsInt(cy, nx * w, s)>>,
          <<AsInt(cx, -ny * w + 2 * nx * d, s), AsInt(cy, nx * w + 2 * ny * d, s)>>,
          <<AsInt(cx, ny * w + 2 * nx * d, s),  AsInt(cy, -nx * w + 2 * ny * d, s)>> >>

RectInBounds(rect_coords, shape) ==
    \A i \in 1..4 : InImage(shape, rect_coords[i][1], rect_coords[i][2])

\* current[0] < border_margin or current[0] > shape[1] - border_margin or ...
NearBorder(current, shape, margin) ==
    \/ current[1] < margin
    \/ current[1] > shape[2] - margin
    \/ current[2] < margin
    \/ current[2] > shape[1] - margin

NoneResult == [tag |-> "none"]

Raised == [tag |-> "exc"]

\* A sampler that lets every window through, whatever its overlap.
ThresholdIgnored(inside, total, p) == FALSE

\* "if interior_overlap < self.params.interior_threshold: return None", with
\* interior_overlap = inside / total * 100.
BelowThreshold(inside, total, p) == inside * 100 < p.interior_threshold * total

\* The window of a point whose border check and normal have passed:
\* None when a corner leaves the image, an exception when the mask does not
\* have the image's shape (rect_mask & (cell_mask > 0) cannot broadcast),
\* None below the interior threshold, the measurement otherwise.
WindowMeasurement(current, normal, s, fluor, mask, p) ==
    LET rect_coords == RectCoords(current, normal, s, p)
        rect_mask == FillPoly(rect_coords)
        inside == Cardinality({pt \in rect_mask : MaskAt(mask, pt[1], pt[2])})
        total == Cardinality(rect_mask)
        values == Cardinality({pt \in rect_mask : FluorAt(fluor, mask, pt[1], pt[2]) = 100})
    IN IF ~RectInBounds(rect_coords, fluor.shape) THEN NoneResult
       ELSE IF mask.shape # fluor.shape THEN Raised
       ELSE IF BelowThreshold(inside, total, p) THEN NoneResult
       ELSE IF total = 0 THEN NoneResult
       ELSE [tag |-> "ok",
             mean |-> <<100 * values + 10 * (total - values), total>>,
             rect_coords |-> rect_coords,
             normal |-> normal,
             norm_sq |-> s,
             center |-> current,
             interior_overlap |-> <<100 * inside, total>>]

\* FluorescenceAnalyzer._calculate_single_intensity
CalculateSingleIntensity(segment, fluor, mask, margin, p) ==
    LET current == segment[(Len(segment) \div 2) + 1]
        n == SegmentNormal(segment)
        s == n[1] * n[1] + n[2] * n[2]
    IN IF NearBorder(current, fluor.shape, margin) THEN NoneResult
       ELSE IF s = 0 THEN NoneResult
       ELSE WindowMeasurement(current, InwardNormal(current, n, s, mask), s, fluor, mask, p)

\* CoordinatedAnalysis.check_point_validity: <<valid, data>> as one record;
\* every exception of the body is caught and reported as not valid.
CheckPointValidity(contour, idx, fluor, mask, margin, p) ==
    LET current == At(contour, idx)
        segment == Take(contour, SegmentIndices(idx, p.edge_segment, Len(contour)))
        n == SegmentNormal(segment)
        s == n[1] * n[1] + n[2] * n[2]
        r == WindowMeasurement(current, InwardNormal(current, n, s, mask), s, fluor, mask, p)
    IN IF NearBorder(current, fluor.shape, margin) THEN NoneResult
       ELSE IF s = 0 THEN NoneResult
       ELSE IF r.tag = "exc" THEN NoneResult
       ELSE r

-----------------------------------------------------------------------------
(* Contour conditioning of EdgeData *)

\* The weights of scipy's gaussian_filter1d kernel (radius int(4 sigma + 0.5),
\* exp(-k^2 / (2 sigma^2)) normalised), in units of 1/10000, from the centre.
GaussianKernel(sigma) ==
    IF sigma = 1 THEN <<3989, 2420, 540, 44, 1>>
    ELSE <<1995, 1760, 1210, 648, 270, 88, 22, 4, 1>>

\* Index k of an array of n entries extended by mode='reflect':
\* (d c b a | a b c d | d c b a).
RECURSIVE Reflect(_, _)
Reflect(k, n) ==
    IF k < 0 THEN Reflect(-k - 1, n)
    ELSE IF k >= n THEN Reflect(2 * n - 1 - k, n)
    ELSE k

\* gaussian_filter1d(contour.astype(float), sigma, axis=0), each coordinate
\* rounded to the pixel grid of the model.
GaussianFilter1d(contour, sigma) ==
    LET w == GaussianKernel(sigma)
        lw == Len(w) - 1
        n == Len(contour)
        wt(k) == w[Abs(k) + 1]
        total == SeqSum([j \in 1..(2 * lw + 1) |-> wt(j - 1 - lw)])
        acc(i, c) == SeqSum([j \in 1..(2 * lw + 1) |->
                        wt(j - 1 - lw) * At(contour, Reflect(i + j - 1 - lw, n))[c]])
        rnd(v) == (2 * v + total) \div (2 * total)
    IN [i \in 1..n |-> <<rnd(acc(i - 1, 1)), rnd(acc(i - 1, 2))>>]

\* EdgeData.smooth_contour: the value stored in smoothed_contour.
SmoothContour(contour, sigma) ==
    IF sigma > 0 THEN GaussianFilter1d(contour, sigma) ELSE contour

\* "smoothed_contour if smoothed_contour is not None else contour"
ConditionedContour(ed) ==
    IF ed.smoothed_contour # None THEN ed.smoothed_contour ELSE ed.contour

-----------------------------------------------------------------------------
(* Curvature by circle fitting *)

\* What the eigen-decomposition of a window that is not a straight line can
\* come to, as far as _fit_circle_to_segment tells the cases apart: a leading
\* coefficient near zero, a radicand <= 0, a radius below min_radius, or a
\* fit that passes the gates with the centre against ("pos"), along ("neg") or
\* square to ("perp") the chord-rotated normal.
EigCases == {"line", "radicand", "small", "pos", "neg", "perp"}

\* All points of the segment on one image row or one image column: the
\* design matrix has a zero column, the eigenvector of the eigenvalue 0 has
\* v[0] = 0.
Straight(segment) ==
    \/ \A j \in 1..Len(segment) : segment[j][1] = segment[1][1]
    \/ \A j \in 1..Len(segment) : segment[j][2] = segment[1][2]

\* CurvatureAnalyzer._fit_circle_to_segment.  The value is the sign of the
\* curvature returned (1, -1) or 0; "exc" is the AttributeError of
\* self.params.pixel_size when the parameters carry no such field.
FitCircleToSegment(segment, p, eig) ==
    LET chord == SegmentNormal(segment) IN
    IF Len(segment) < 3 THEN [tag |-> "ok", value |-> 0]
    ELSE IF ~p.has_pixel_size THEN Raised
    ELSE IF Straight(segment) \/ eig = "line" THEN [tag |-> "ok", value |-> 0]
    ELSE IF eig = "radicand" THEN [tag |-> "ok", value |-> 0]
    ELSE IF eig = "small" THEN [tag |-> "ok", value |-> 0]
    ELSE IF chord = <<0, 0>> THEN [tag |-> "ok", value |-> 0]
    ELSE IF eig = "pos" THEN [tag |-> "ok", value |-> 1]
    ELSE IF eig = "neg" THEN [tag |-> "ok", value |-> -1]
    ELSE [tag |-> "ok", value |-> 0]

\* The loop of CurvatureAnalyzer.calculate_curvature over sample_indices:
\* the measurements kept, as records [idx, curvature, point].
CurvatureLoop(points, sample_indices, p, eig) ==
    LET fit(idx) == FitCircleToSegment(
                        Take(points, SegmentIndices(idx, p.segment_length, Len(points))),
                        p, eig)
        all == [k \in 1..Len(sample_indices) |->
                  [idx |-> sample_indices[k],
                   fit |-> fit(sample_indices[k]),
                   point |-> At(points, sample_indices[k])]]
        kept == SelectSeq(all, LAMBDA m : m.fit.tag = "ok" /\ m.fit.value # 0)
    IN [k \in 1..Len(kept) |->
          [idx |-> kept[k].idx, curvature |-> kept[k].fit.value, point |-> kept[k].point]]

\* CurvatureAnalyzer.calculate_curvature: <<result, self.valid_indices>>.
CalculateCurvature(ed, valid_indices, p, eig) ==
    LET points == ConditionedContour(ed)
        sample_indices == IF valid_indices.tag = "ok" THEN valid_indices.idx
                          ELSE Linspace(Len(points), p.n_samples)
        kept == CurvatureLoop(points, sample_indices, p, eig)
    IN IF kept = <<>> THEN <<NoneResult, [tag |-> "ok", idx |-> <<>>]>>
       ELSE << [tag |-> "ok", samples |-> kept],
               [tag |-> "ok", idx |-> [k \in 1..Len(kept) |-> kept[k].idx]] >>

-----------------------------------------------------------------------------
(* Intensity sampling *)

\* A calculate_intensities without "if not valid_points: return None".
EmptyCollection(ed, fluor, mask, valid_indices, p) ==
    LET n_points == Len(ed.contour)
        sample_indices == IF valid_indices.tag = "ok" THEN valid_indices.idx
                          ELSE Linspace(n_points, Min2(p.n_samples, n_points))
        all == [k \in 1..Len(sample_indices) |->
                  [idx |-> sample_indices[k],
                   m |-> CalculateSingleIntensity(
                            Take(ed.contour,
                                 SegmentIndices(sample_indices[k], p.edge_segment, n_points)),
                            fluor, mask, border_margin, p)]]
        kept == SelectSeq(all, LAMBDA e : e.m.tag = "ok")
    IN << [tag |-> "ok", samples |-> kept],
          [tag |-> "ok", idx |-> [k \in 1..Len(kept) |-> kept[k].idx]] >>

\* FluorescenceAnalyzer.calculate_intensities: <<result, self.valid_indices>>.
\* A point whose measurement raises is skipped like one that is rejected.
CalculateIntensities(ed, fluor, mask, valid_indices, p) ==
    LET n_points == Len(ed.contour)
        sample_indices == IF valid_indices.tag = "ok" THEN valid_indices.idx
                          ELSE Linspace(n_points, Min2(p.n_samples, n_points))
        all == [k \in 1..Len(sample_indices) |->
                  [idx |-> sample_indices[k],
                   m |-> CalculateSingleIntensity(
                            Take(ed.contour,
                                 SegmentIndices(sample_indices[k], p.edge_segment, n_points)),
                            fluor, mask, border_margin, p)]]
        kept == SelectSeq(all, LAMBDA e : e.m.tag = "ok")
    IN IF kept = <<>> THEN <<NoneResult, [tag |-> "ok", idx |-> <<>>]>>
       ELSE << [tag |-> "ok", samples |-> kept],
               [tag |-> "ok", idx |-> [k \in 1..Len(kept) |-> kept[k].idx]] >>

-----------------------------------------------------------------------------
(* The state of each part of the program after construction *)

\* No frame has been handed to the analyzers.
JointIdle ==
    /\ edge_data = [contour |-> None, smoothed_contour |-> None, sigma |-> -1]
    /\ cell_mask = NoneResult
    /\ fluor_data = NoneResult
    /\ fa_valid_indices = NoneResult
    /\ fluor_result = NoneResult
    /\ ca_valid_indices = NoneResult
    /\ curv_result = NoneResult
    /\ coord_result = NoneResult
    /\ jpc = "start"

\* FilePanel.__init__ and _init_ui: no stack, frame 0, spinner range 0..0.
PanelIdle ==
    /\ cell_stack = NoneResult
    /\ fluor_stack = NoneResult
    /\ current_frame = 0
    /\ spinner_max = 0
    /\ emitted = {}
    /\ loads = 0

\* analyze_stack has not run.
LoopIdle ==
    /\ bpc = "idle"
    /\ frame = 0
    /\ total_frames = 0
    /\ all_curvatures = <<>>
    /\ all_intensities = <<>>
    /\ all_correlations = <<>>
    /\ processed = <<>>
    /\ exported = None

\* EdgeDetector.__init__: empty dictionaries, smoothing_window = 0.
EdgeIdle ==
    /\ contours = <<>>
    /\ smoothed_contours = <<>>
    /\ smoothing_window = 0
    /\ edge_result = [op |-> "init"]

\* CurvatureAnalyzer.__init__ of curvature.py: empty dictionaries.
SplineIdle ==
    /\ curvature = <<>>
    /\ spline_contours = <<>>
    /\ spline_result = [op |-> "init"]

\* TiffHandler.__init__: no stacks, frame 0 of 0.
TiffIdle ==
    /\ tiff_handler = [cell_stack |-> None, piezo_stack |-> None,
                       current_frame |-> 0, n_frames |-> 0]
    /\ tiff_result = [op |-> "init"]

-----------------------------------------------------------------------------
(* One frame analysed by FluorescenceAnalyzer, CurvatureAnalyzer and        *)
(* CoordinatedAnalysis                                                      *)

\* The least n_samples tried; the next value up is tried too.
NSamples == 4

FullShape == <<ImageSize, ImageSize>>

\* A 17 x 17 cell in the middle of the image.
SquareCell == Rect(24, 40, 24, 40)
\* A cell 4 pixels thick, thinner than the test distance; its right end is
\* at the border margin.
BarCell == Rect(20, 45, 30, 33)
\* A speck below min_size.
Speck == Rect(50, 54, 50, 54)

\* The component cv2.contourArea ranks first.
Largest(comps) == CHOOSE r \in comps : \A q \in comps : ContourArea(r) >= ContourArea(q)

JointMasks ==
    { [shape |-> FullShape, comps |-> {SquareCell}],
      [shape |-> FullShape, comps |-> {BarCell}],
      [shape |-> FullShape, comps |-> {SquareCell, Speck}] }

FluorKinds == {"uniform", "cell"}

\* AnalysisParameters (data_structures.py:62-85).  has_pixel_size tells
\* whether the object carries the pixel_size attribute that
\* _fit_circle_to_segment reads and the dataclass does not declare.
ParamSets ==
    [n_samples : {NSamples, NSamples + 1},
     segment_length : {9},
     edge_segment : {10},
     vector_width : {5},
     vector_depth : {10, 20},
     interior_threshold : {0, 90},
     has_pixel_size : BOOLEAN]

Sigmas == {0, 2}

JInit ==
    /\ cell_mask \in JointMasks
    /\ fluor_data \in [shape : {FullShape}, kind : FluorKinds]
    /\ params \in ParamSets
    /\ edge_data = [contour |-> RectContour(Largest(cell_mask.comps)),
                    smoothed_contour |-> None,
                    sigma |-> -1]
    /\ fa_valid_indices = NoneResult
    /\ fluor_result = NoneResult
    /\ ca_valid_indices = NoneResult
    /\ curv_result = NoneResult
    /\ coord_result = NoneResult
    /\ jpc = "start"
    /\ PanelIdle
    /\ LoopIdle
    /\ EdgeIdle
    /\ SplineIdle
    /\ TiffIdle
    /\ probe = [op |-> "init"]

\* edge_data.smooth_contour(sigma); sigma records the argument of the call.
JSmoothContour ==
    /\ jpc = "start"
    /\ edge_data.contour # None
    /\ \E sigma \in Sigmas :
          edge_data' = [edge_data EXCEPT
                           !.smoothed_contour = SmoothContour(edge_data.contour, sigma),
                           !.sigma = sigma]
    /\ UNCHANGED <<cell_mask, fluor_data, params, fa_valid_indices, fluor_result,
                   ca_valid_indices, curv_result, coord_result, jpc>>
    /\ UNCHANGED notJoint

\* fluorescence_analyzer.calculate_intensities(edge_data, fluor_data, cell_mask)
JCalculateIntensities ==
    /\ jpc = "start"
    /\ LET r == CalculateIntensities(edge_data, fluor_data, cell_mask, NoneResult, params)
       IN /\ fluor_result' = r[1]
          /\ fa_valid_indices' = r[2]
    /\ jpc' = "intensity"
    /\ UNCHANGED <<edge_data, cell_mask, fluor_data, params, ca_valid_indices,
                   curv_result, coord_result>>
    /\ UNCHANGED notJoint

\* curvature_analyzer.calculate_curvature(edge_data,
\*     valid_indices=fluorescence_analyzer.get_valid_indices())
JCalculateCurvature ==
    /\ jpc = "intensity"
    /\ \E eig \in EigCases :
          LET r == CalculateCurvature(edge_data, fa_valid_indices, params, eig)
          IN /\ curv_result' = r[1]
             /\ ca_valid_indices' = r[2]
    /\ jpc' = "joint"
    /\ UNCHANGED <<edge_data, cell_mask, fluor_data, params, fa_valid_indices,
                   fluor_result, coord_result>>
    /\ UNCHANGED notJoint

\* curvature_analyzer.calculate_curvature(edge_data): no indices supplied.
JCalculateCurvatureOnly ==
    /\ jpc = "start"
    /\ \E eig \in EigCases :
          LET r == CalculateCurvature(edge_data, NoneResult, params, eig)
          IN /\ curv_result' = r[1]
             /\ ca_valid_indices' = r[2]
    /\ jpc' = "curvature"
    /\ UNCHANGED <<edge_data, cell_mask, fluor_data, params, fa_valid_indices,
                   fluor_result, coord_result>>
    /\ UNCHANGED notJoint

\* CoordinatedAnalysis(edge_data, params).generate_sampling_points()
GenerateSamplingPoints(ed, p) ==
    LET n_points == Len(ConditionedContour(ed))
    IN Linspace(n_points, Min2(p.n_samples, n_points))

\* CoordinatedAnalysis(edge_data, params).check_point_validity(idx, ...)
\* for one of the generated sampling points.
JCheckPointValidity ==
    /\ jpc = "start"
    /\ LET pts == GenerateSamplingPoints(edge_data, params)
       IN \E k \in 1..Len(pts) :
             coord_result' =
                [tag |-> "ok", idx |-> pts[k],
                 m |-> CheckPointValidity(ConditionedContour(edge_data), pts[k],
                                          fluor_data, cell_mask, border_margin, params)]
    /\ jpc' = "coordinated"
    /\ UNCHANGED <<edge_data, cell_mask, fluor_data, params, fa_valid_indices,
                   fluor_result, ca_valid_indices, curv_result>>
    /\ UNCHANGED notJoint

JNext ==
    \/ JSmoothContour
    \/ JCalculateIntensities
    \/ JCalculateCurvature
    \/ JCalculateCurvatureOnly
    \/ JCheckPointValidity

SpecJoint == JInit /\ [][JNext]_vars

-----------------------------------------------------------------------------
(* Properties of the single-frame analysis *)

\* The measurements the frame holds: those of calculate_intensities and the
\* one of check_point_validity.
RetainedMeasurements ==
    (IF fluor_result.tag = "ok"
     THEN {fluor_result.samples[k].m : k \in 1..Len(fluor_result.samples)}
     ELSE {})
    \cup
    (IF coord_result.tag = "ok" /\ coord_result.m.tag = "ok" THEN {coord_result.m} ELSE {})

\* C1: after a joint request (calculate_intensities, then calculate_curvature
\* on its get_valid_indices()), the curvature stage has retained the very
\* index sequence the intensity stage retained: same indices, same order,
\* same length.
C1_JointIndexSetsIdentical ==
    jpc = "joint" => ca_valid_indices = fa_valid_indices

\* C2: after a joint request every index retained by both stages is measured
\* at one boundary location: the point the circle-fit window is centred on is
\* the point the intensity window is anchored at, smoothed contour or not.
C2_SameBoundaryLocation ==
    (jpc = "joint" /\ curv_result.tag = "ok" /\ fluor_result.tag = "ok") =>
        \A k \in 1..Len(curv_result.samples) :
            \A j \in 1..Len(fluor_result.samples) :
                curv_result.samples[k].idx = fluor_result.samples[j].idx =>
                    curv_result.samples[k].point = fluor_result.samples[j].m.center

\* C5: every retained intensity measurement has a defined interior overlap
\* (a window of at least one pixel) that is at least params.interior_threshold
\* percent.
C5_RetainedOverlapAtLeastThreshold ==
    \A m \in RetainedMeasurements :
        /\ m.interior_overlap[2] > 0
        /\ m.interior_overlap[1] >= params.interior_threshold * m.interior_overlap[2]

\* A frame analysed with a threshold of 90 percent where some sampled windows
\* were rejected and a retained one is partly outside the cell.
C5_Witness ==
    /\ params.interior_threshold = 90
    /\ fluor_result.tag = "ok"
    /\ Len(fluor_result.samples) < params.n_samples
    /\ \E m \in RetainedMeasurements :
          /\ m.interior_overlap[1] < 100 * m.interior_overlap[2]
          /\ m.interior_overlap[1] >= 90 * m.interior_overlap[2]

\* C6: for every retained measurement the stored normal is a unit vector and
\* the point test_dist pixels along it from the boundary point is inside the
\* image and inside the mask.
C6_RetainedNormalPointsInward ==
    \A m \in RetainedMeasurements :
        LET step == StepAlong(m.center, m.normal, m.norm_sq, test_dist)
        IN /\ m.norm_sq = m.normal[1] * m.normal[1] + m.normal[2] * m.normal[2]
           /\ m.norm_sq > 0
           /\ InImage(cell_mask.shape, step[1], step[2])
           /\ MaskAt(cell_mask, step[1], step[2])

\* C22: after a joint request, for every index retained by both stages the
\* normal that orients the curvature sign (the rotated chord of the circle-fit
\* window) has the direction of the inward normal stored with the intensity
\* measurement of that index.
C22_SameOrientingNormal ==
    (jpc = "joint" /\ curv_result.tag = "ok" /\ fluor_result.tag = "ok") =>
        \A k \in 1..Len(curv_result.samples) :
            \A j \in 1..Len(fluor_result.samples) :
                curv_result.samples[k].idx = fluor_result.samples[j].idx =>
                    LET points == ConditionedContour(edge_data)
                        normal == SegmentNormal(
                                     Take(points,
                                          SegmentIndices(curv_result.samples[k].idx,
                                                         params.segment_length,
                                                         Len(points))))
                        inward == fluor_result.samples[j].m.normal
                    IN /\ normal[1] * inward[2] = normal[2] * inward[1]
                       /\ normal[1] * inward[1] + normal[2] * inward[2] > 0

\* C21: every retained sample lies at least border_margin pixels from each of
\* the four image edges: border_margin <= x <= (W - 1) - border_margin and
\* border_margin <= y <= (H - 1) - border_margin.
C21_RetainedAwayFromBorder ==
    \A m \in RetainedMeasurements :
        /\ border_margin <= m.center[1]
        /\ m.center[1] <= (fluor_data.shape[2] - 1) - border_margin
        /\ border_margin <= m.center[2]
        /\ m.center[2] <= (fluor_data.shape[1] - 1) - border_margin

-----------------------------------------------------------------------------
(* FilePanel: loading the stacks *)

\* The longest stack a file holds.
MaxFrames == 2
\* The number of files opened in one session.
MaxLoads == 2

\* An image shape that FullShape does not match.
WideShape == <<ImageSize, ImageSize + 8>>

\* A cell inside the border margin: every sample point is rejected.
BorderCell == Rect(2, 18, 2, 18)

SquareFrame == {SquareCell}

EmptyFrame == {}

BorderFrame == {BorderCell}

FrameMasks == {SquareFrame, EmptyFrame, BorderFrame,
               \* a cell of which a single sample point is retained
               {Rect(10, 30, 22, 32)}}

\* What tifffile.imread can return for a mask file: a stack (ndim 3) of
\* MaxFrames frames, or a single image (ndim 2).
CellFiles ==
    {[ndim |-> 3, shape |-> FullShape, frames |-> f] : f \in [1..MaxFrames -> FrameMasks]}
    \cup {[ndim |-> 2, shape |-> sh, frames |-> <<SquareFrame>>] : sh \in {FullShape, WideShape}}

\* And for a fluorescence file.
FluorFiles ==
    {[ndim |-> 3, shape |-> FullShape, frames |-> [k \in 1..n |-> "uniform"]] : n \in 1..MaxFrames}
    \cup {[ndim |-> 3, shape |-> WideShape, frames |-> [k \in 1..MaxFrames |-> "uniform"]]}
    \cup {[ndim |-> 2, shape |-> sh, frames |-> <<"uniform">>] : sh \in {FullShape, WideShape}}

\* self.cell_stack / self.fluor_stack after "image_stack" or
\* "image_stack[np.newaxis, ...]" is stored.
StackOf(file) == [tag |-> "ok", shape |-> file.shape, frames |-> file.frames]

\* _update_buttons, and the last lines of the two loaders: files_ready when
\* both stacks are there.
FilesReady(c, f) == IF c.tag = "ok" /\ f.tag = "ok" THEN {"files_ready"} ELSE {}

\* The body of change_frame(frame_number) after current_frame is set, on the
\* stacks c and f: the signals it emits.  An IndexError of c[frame_number]
\* or f[frame_number] leaves the slot unhandled.
ChangeFrameSignals(frame_number, c, f) ==
    IF c.tag = "ok" /\ frame_number >= Len(c.frames) THEN {"unhandled"}
    ELSE IF f.tag = "ok" /\ frame_number >= Len(f.frames)
         THEN (IF c.tag = "ok" THEN {"cell_mask_loaded"} ELSE {}) \cup {"unhandled"}
    ELSE (IF c.tag = "ok" THEN {"cell_mask_loaded"} ELSE {})
         \cup (IF f.tag = "ok" THEN {"fluorescence_loaded"} ELSE {})
         \cup FilesReady(c, f)

\* frame_spinner.setMaximum(len(image_stack) - 1) for a stack, nothing for a
\* single image.
NewMaximum(file) == IF file.ndim > 2 THEN Len(file.frames) - 1 ELSE spinner_max

\* setMaximum lowers a value above the new maximum and valueChanged then runs
\* change_frame on the stacks c and f.
ClampSignals(new_max, c, f) ==
    IF current_frame > new_max THEN ChangeFrameSignals(new_max, c, f) ELSE {}

\* FilePanel.load_cell_mask with a file chosen in the dialog.
LoadCellMask ==
    /\ "unhandled" \notin emitted
    /\ loads < MaxLoads
    /\ loads' = loads + 1
    /\ \/ \* tifffile.imread raises: the error dialog, nothing stored
          /\ emitted' = {"error"}
          /\ UNCHANGED <<cell_stack, current_frame, spinner_max>>
       \/ \E file \in CellFiles :
             LET nested == ClampSignals(NewMaximum(file), StackOf(file), fluor_stack)
             IN /\ cell_stack' = StackOf(file)
                /\ spinner_max' = NewMaximum(file)
                /\ current_frame' = Min2(current_frame, NewMaximum(file))
                /\ emitted' = IF "unhandled" \in nested THEN nested
                              ELSE nested \cup FilesReady(StackOf(file), fluor_stack)
                                          \cup {"cell_mask_loaded"}
    /\ UNCHANGED <<fluor_stack, loopVars, params>>
    /\ UNCHANGED notBatch

\* FilePanel.load_fluorescence with a file chosen in the dialog: the stack is
\* stored and the spinner set before the dimensions are compared.
LoadFluorescence ==
    /\ "unhandled" \notin emitted
    /\ loads < MaxLoads
    /\ loads' = loads + 1
    /\ \/ /\ emitted' = {"error"}
          /\ UNCHANGED <<fluor_stack, current_frame, spinner_max>>
       \/ \E file \in FluorFiles :
             LET nested == ClampSignals(NewMaximum(file), cell_stack, StackOf(file))
                 mismatch == cell_stack.tag = "ok" /\ file.shape # cell_stack.shape
             IN /\ fluor_stack' = StackOf(file)
                /\ spinner_max' = NewMaximum(file)
                /\ current_frame' = Min2(current_frame, NewMaximum(file))
                /\ emitted' = IF "unhandled" \in nested THEN nested
                              ELSE IF mismatch THEN nested \cup {"error"}
                              ELSE nested \cup FilesReady(cell_stack, StackOf(file))
                                          \cup {"fluorescence_loaded"}
    /\ UNCHANGED <<cell_stack, loopVars, params>>
    /\ UNCHANGED notBatch

\* FilePanel.change_frame, run by the spinner's valueChanged when the user
\* picks another frame within its range.
ChangeFrame ==
    /\ "unhandled" \notin emitted
    /\ \E frame_number \in 0..spinner_max :
          /\ frame_number # current_frame
          /\ current_frame' = frame_number
          /\ emitted' = ChangeFrameSignals(frame_number, cell_stack, fluor_stack)
    /\ UNCHANGED <<cell_stack, fluor_stack, spinner_max, loads, loopVars, params>>
    /\ UNCHANGED notBatch

-----------------------------------------------------------------------------
(* FilePanel.analyze_stack *)

\* EdgeDetector.detect_edge(cell_data), which analyze_stack calls and the
\* sources do not hold: the contour extractor of the design, which removes the
\* components below min_size, reports no cell when nothing remains and traces
\* the largest component otherwise.
DetectEdge(mask) ==
    LET big == {r \in mask.comps : RectArea(r) >= min_size}
    IN IF big = {} THEN NoneResult
       ELSE [tag |-> "ok", contour |-> RectContour(Largest(big)), smoothed_contour |-> None]

\* The first loop over sample_indices: one _calculate_single_intensity per
\* sample point, with no try around it.
FrameIntensities(contour, sample_indices, fluor, mask, p) ==
    [k \in 1..Len(sample_indices) |->
        [idx |-> sample_indices[k],
         m |-> CalculateSingleIntensity(
                  Take(contour, SegmentIndices(sample_indices[k], p.edge_segment, Len(contour))),
                  fluor, mask, border_margin, p)]]

\* The loops calling _fit_circle_to_segment, one call per index.
FrameCurvatures(contour, indices, p, eig) ==
    [k \in 1..Len(indices) |->
        [idx |-> indices[k],
         fit |-> FitCircleToSegment(
                    Take(contour, SegmentIndices(indices[k], p.segment_length, Len(contour))),
                    p, eig)]]

\* A correlation that is a number whatever the variance of its arguments.
AlwaysNumber(curvatures, intensities) == "number"

\* np.corrcoef(curvatures, intensities)[0, 1] as far as the model tells: "nan"
\* for fewer than two points or a constant array, a number otherwise.
\* Intensities are fractions <<sum, count>>.
Corrcoef(curvatures, intensities) ==
    LET n == Len(curvatures)
    IN IF n < 2 THEN "nan"
       ELSE IF \A k \in 1..n : curvatures[k] = curvatures[1] THEN "nan"
       ELSE IF \A k \in 1..n : intensities[k][1] * intensities[1][2]
                                   = intensities[1][1] * intensities[k][2] THEN "nan"
       ELSE "number"

\* A batch that keeps the intensity of every sampled point.
AllIntensities(frame_intensities, valid_curv) == frame_intensities

\* frame_curvatures[valid_curv]
ValidCurvatures(frame_curvatures, valid_curv) == SelectIdx(frame_curvatures, valid_curv)

\* frame_intensities[valid_curv]
ValidIntensities(frame_intensities, valid_curv) == SelectIdx(frame_intensities, valid_curv)

\* analyze_stack up to the loop: refused without a mask stack.
AnalyzeStackStart ==
    /\ "unhandled" \notin emitted
    /\ bpc # "running"
    /\ cell_stack.tag = "ok"
    /\ bpc' = "running"
    /\ frame' = 0
    /\ total_frames' = Len(cell_stack.frames)
    /\ all_curvatures' = <<>>
    /\ all_intensities' = <<>>
    /\ all_correlations' = <<>>
    /\ processed' = <<>>
    /\ exported' = None
    /\ UNCHANGED <<panelVars, params>>
    /\ UNCHANGED notBatch

\* An exception leaves the loop for the handler around it: "Analysis failed".
BatchFails(log) ==
    /\ bpc' = "failed"
    /\ processed' = log
    /\ UNCHANGED <<frame, total_frames, all_curvatures, all_intensities, all_correlations,
                   exported>>

\* "continue", or the end of the loop body with nothing appended.
FrameSkipped(log) ==
    /\ frame' = frame + 1
    /\ processed' = log
    /\ UNCHANGED <<bpc, total_frames, all_curvatures, all_intensities, all_correlations,
                   exported>>

\* The indices of the entries of a list of [idx, ...] records.
IndicesOf(entries) == [j \in 1..Len(entries) |-> entries[j].idx]

\* The branch of the loop body taken with a fluorescence frame.  (x \in {e}
\* names the value of e.)
FrameWithFluor(contour, sample_indices, fluor, mask, log) ==
    \E ints \in {AsArray(FrameIntensities(contour, sample_indices, fluor, mask, params))} :
    \E valid \in {SelectSeq(ints, LAMBDA e : e.m.tag = "ok")} :
       IF \E k \in 1..Len(ints) : ints[k].m.tag = "exc" THEN BatchFails(log)
       ELSE IF valid = <<>> THEN FrameSkipped(log)
       ELSE \E eig \in EigCases :
            \E fits \in {AsArray(FrameCurvatures(contour, AsArray(IndicesOf(valid)),
                                                 params, eig))} :
              IF \E k \in 1..Len(fits) : fits[k].fit.tag = "exc" THEN BatchFails(log)
              ELSE LET frame_intensities == [k \in 1..Len(valid) |->
                                               [idx |-> valid[k].idx, value |-> valid[k].m.mean]]
                       frame_curvatures == [k \in 1..Len(fits) |->
                                               [idx |-> fits[k].idx, value |-> fits[k].fit.value]]
                       valid_curv == [k \in 1..Len(fits) |-> fits[k].fit.value # 0]
                   IN \E curvs \in {ValidCurvatures(frame_curvatures, valid_curv)} :
                      \E intens \in {ValidIntensities(frame_intensities, valid_curv)} :
                         IF curvs = <<>> THEN FrameSkipped([log EXCEPT ![Len(log)].eig = eig])
                         ELSE /\ all_curvatures' = Append(all_curvatures, curvs)
                              /\ all_intensities' = Append(all_intensities, intens)
                              /\ all_correlations' =
                                    Append(all_correlations,
                                           Corrcoef([k \in 1..Len(curvs) |-> curvs[k].value],
                                                    [k \in 1..Len(intens) |-> intens[k].value]))
                              /\ frame' = frame + 1
                              /\ processed' = [log EXCEPT ![Len(log)].kept = TRUE,
                                                           ![Len(log)].eig = eig]
                              /\ UNCHANGED <<bpc, total_frames, exported>>

\* The branch taken without one: curvature at every sample point.
FrameWithoutFluor(contour, sample_indices, log) ==
    \E eig \in EigCases :
    \E fits \in {AsArray(FrameCurvatures(contour, sample_indices, params, eig))} :
    \E kept \in {SelectSeq(fits, LAMBDA e : e.fit.tag = "ok" /\ e.fit.value # 0)} :
       IF \E k \in 1..Len(fits) : fits[k].fit.tag = "exc" THEN BatchFails(log)
       ELSE IF kept = <<>> THEN FrameSkipped([log EXCEPT ![Len(log)].eig = eig])
       ELSE /\ all_curvatures' =
                 Append(all_curvatures,
                        [k \in 1..Len(kept) |-> [idx |-> kept[k].idx, value |-> kept[k].fit.value]])
            /\ frame' = frame + 1
            /\ processed' = [log EXCEPT ![Len(log)].kept = TRUE, ![Len(log)].eig = eig]
            /\ UNCHANGED <<bpc, total_frames, all_intensities, all_correlations, exported>>

\* cell_data / fluor_data of frame k: ImageData(data=self.cell_stack[k], ...)
CellFrame(k) == [shape |-> cell_stack.shape, comps |-> cell_stack.frames[k + 1]]

FluorFrame(k) == [shape |-> fluor_stack.shape, kind |-> fluor_stack.frames[k + 1]]

\* One pass of "for frame in range(total_frames)", from processEvents to the
\* end of the body.
AnalyzeFrame ==
    /\ "unhandled" \notin emitted
    /\ bpc = "running"
    /\ frame < total_frames
    /\ LET has_fluor == fluor_stack.tag = "ok"
           log == Append(processed,
                         [frame |-> frame,
                          cell_shape |-> cell_stack.shape,
                          fluor_shape |-> IF has_fluor THEN fluor_stack.shape ELSE None,
                          comps |-> cell_stack.frames[frame + 1],
                          kind |-> IF has_fluor THEN fluor_stack.frames[frame + 1] ELSE None,
                          params |-> params,
                          eig |-> "none",
                          kept |-> FALSE])
       IN IF frame >= Len(cell_stack.frames) THEN BatchFails(processed)
          ELSE IF has_fluor /\ frame >= Len(fluor_stack.frames) THEN BatchFails(processed)
          ELSE \E edge_data_k \in {DetectEdge(CellFrame(frame))} :
                 IF edge_data_k.tag = "none" THEN FrameSkipped(log)
                 ELSE \E contour \in {AsArray(ConditionedContour(edge_data_k))} :
                      \E sample_indices \in {AsArray(Linspace(Len(contour), params.n_samples))} :
                         IF has_fluor
                         THEN FrameWithFluor(contour, sample_indices, FluorFrame(frame),
                                             CellFrame(frame), log)
                         ELSE FrameWithoutFluor(contour, sample_indices, log)
    /\ UNCHANGED <<panelVars, params>>
    /\ UNCHANGED notBatch

\* After the loop: ResultsWindow(all_curvatures, all_intensities or None,
\* all_correlations or None) when a frame gave curvatures.  Its summary tab
\* iterates all_intensities, which raises when that is None.
AnalyzeStackFinish ==
    /\ "unhandled" \notin emitted
    /\ bpc = "running"
    /\ frame = total_frames
    /\ bpc' = IF all_curvatures = <<>> THEN "empty"
              ELSE IF all_intensities = <<>> \/ all_correlations = <<>> THEN "failed"
              ELSE "results"
    /\ UNCHANGED <<frame, total_frames, all_curvatures, all_intensities,
                   all_correlations, processed, exported, panelVars, params>>
    /\ UNCHANGED notBatch

\* ResultsWindow.export_csv with a file name chosen: one block of rows per
\* entry i of all_curvatures, "[i] * len(self.all_curvatures[i])" in the
\* Frame column.
ExportCsv ==
    /\ "unhandled" \notin emitted
    /\ bpc = "results"
    /\ IF Len(all_intensities) < Len(all_curvatures)
             \/ Len(all_correlations) < Len(all_curvatures)
       THEN \* self.all_intensities[i] raises IndexError in the slot
            /\ emitted' = {"unhandled"}
            /\ UNCHANGED <<exported, cell_stack, fluor_stack, current_frame,
                           spinner_max, loads>>
       ELSE /\ exported' = [sheet |-> "csv",
                            rows |-> [i \in 1..Len(all_curvatures) |->
                                        [Frame |-> i - 1,
                                         Curvature |-> all_curvatures[i],
                                         Intensity |-> all_intensities[i],
                                         Correlation |-> all_correlations[i]]]]
            /\ UNCHANGED panelVars
    /\ UNCHANGED <<bpc, frame, total_frames, all_curvatures, all_intensities,
                   all_correlations, processed, params>>
    /\ UNCHANGED notBatch

\* ResultsWindow.export_excel: the same blocks on the sheet 'Raw Data' (the
\* sheet 'Frame Stats' numbers its lines range(len(self.all_curvatures))).
ExportExcel ==
    /\ "unhandled" \notin emitted
    /\ bpc = "results"
    /\ IF Len(all_intensities) < Len(all_curvatures)
             \/ Len(all_correlations) < Len(all_curvatures)
       THEN \* self.all_intensities[i] raises IndexError in the slot
            /\ emitted' = {"unhandled"}
            /\ UNCHANGED <<exported, cell_stack, fluor_stack, current_frame,
                           spinner_max, loads>>
       ELSE /\ exported' = [sheet |-> "Raw Data",
                            rows |-> [i \in 1..Len(all_curvatures) |->
                                        [Frame |-> i - 1,
                                         Curvature |-> all_curvatures[i],
                                         Intensity |-> all_intensities[i],
                                         Correlation |-> all_correlations[i]]]]
            /\ UNCHANGED panelVars
    /\ UNCHANGED <<bpc, frame, total_frames, all_curvatures, all_intensities,
                   all_correlations, processed, params>>
    /\ UNCHANGED notBatch

\* AnalysisParameters of the batch.
BatchParamSets ==
    [n_samples : {NSamples},
     segment_length : {9},
     edge_segment : {10},
     vector_width : {5},
     vector_depth : {20},
     interior_threshold : {0},
     has_pixel_size : BOOLEAN]

BInit ==
    /\ params \in BatchParamSets
    /\ PanelIdle
    /\ LoopIdle
    /\ JointIdle
    /\ EdgeIdle
    /\ SplineIdle
    /\ TiffIdle
    /\ probe = [op |-> "init"]

BNext ==
    \/ LoadCellMask
    \/ LoadFluorescence
    \/ ChangeFrame
    \/ AnalyzeStackStart
    \/ AnalyzeFrame
    \/ AnalyzeStackFinish
    \/ ExportCsv
    \/ ExportExcel

SpecBatch == BInit /\ [][BNext]_vars

-----------------------------------------------------------------------------
(* Properties of the batch and of loading *)

\* Every frame the loop has handled so far had a fluorescence frame.
RunWithFluor ==
    \A k \in 1..Len(processed) : processed[k].fluor_shape # None

\* C3: in a run of analyze_stack with a fluorescence stack loaded, each frame
\* entry has a curvature array and an intensity array of one length whose
\* k-th elements come from one sample index, and the three result lists have
\* the same number of entries.
C3_BatchEntriesAligned ==
    RunWithFluor =>
        /\ Len(all_curvatures) = Len(all_intensities)
        /\ Len(all_curvatures) = Len(all_correlations)
        /\ \A f \in 1..Len(all_curvatures) :
              /\ Len(all_curvatures[f]) = Len(all_intensities[f])
              /\ \A k \in 1..Len(all_curvatures[f]) :
                    all_curvatures[f][k].idx = all_intensities[f][k].idx

\* A finished run with fluorescence in which every frame gave an entry and
\* the curvature filter dropped sampled points of a frame.
C3_Witness ==
    /\ bpc = "results"
    /\ RunWithFluor
    /\ Len(all_curvatures) = total_frames
    /\ total_frames >= 2
    /\ \E f \in 1..Len(all_curvatures) :
          /\ Len(all_curvatures[f]) >= 1
          /\ Len(all_curvatures[f]) < params.n_samples

\* C9: when analyze_stack has returned, every frame of the stack has been
\* processed, whatever failed on the way, and the entries gathered from the
\* frames that succeeded are shown.
C9_FailedFrameDoesNotAbortBatch ==
    bpc \in {"results", "empty", "failed"} =>
        /\ Len(processed) = total_frames
        /\ (all_curvatures # <<>> => bpc = "results")

\* The loaded mask and fluorescence stacks differ in their spatial dimensions.
ShapesDiffer ==
    /\ cell_stack.tag = "ok"
    /\ fluor_stack.tag = "ok"
    /\ cell_stack.shape # fluor_stack.shape

\* C10: files_ready is not emitted while the two loaded stacks differ in
\* shape, and analyze_stack handles no frame whose mask and fluorescence
\* differ in shape, in whatever order the files were loaded.
C10_MismatchFatalBeforeProcessing ==
    /\ "files_ready" \in emitted => ~ShapesDiffer
    /\ \A k \in 1..Len(processed) :
          processed[k].fluor_shape # None =>
              processed[k].fluor_shape = processed[k].cell_shape

\* The frames of the stack whose measurements the loop appended, in order.
SourceFrames == SelectSeq(processed, LAMBDA e : e.kept)

\* C11: every block of rows an export has written carries, in its Frame
\* column, the index in the input stack of the frame its curvatures and
\* intensities were measured on, also when earlier frames were skipped.
C11_ExportedFrameIsStackIndex ==
    exported # None =>
        \A i \in 1..Len(exported.rows) :
            exported.rows[i].Frame = SourceFrames[i].frame

\* C12: whenever the loop has handled a frame on which a cell was found:
\* if _calculate_single_intensity rejects every sample point,
\* calculate_intensities on that frame returns None, the frame added no entry
\* and the loop went on to the next frame; if _fit_circle_to_segment gives no
\* curvature at any sample point, calculate_curvature on that frame returns
\* None, and a frame of the loop that came to that gave no entry and the loop
\* went on.
C12_NoValidPointsIsNoResult ==
    [][Len(processed') > Len(processed) =>
        \A e \in {processed'[Len(processed')]} :
        \A ed \in {DetectEdge([shape |-> e.cell_shape, comps |-> e.comps])} :
          ed.tag = "ok" =>
            \A contour \in {AsArray(ed.contour)} :
            \A sample_indices \in {AsArray(Linspace(Len(contour), e.params.n_samples))} :
              LET mask == [shape |-> e.cell_shape, comps |-> e.comps]
                  fluor == [shape |-> e.fluor_shape, kind |-> e.kind]
                  Rejected(fits) ==
                      \A k \in 1..Len(fits) :
                          fits[k].fit.tag = "exc" \/ fits[k].fit.value = 0
              IN /\ e.fluor_shape = e.cell_shape =>
                      \A ints \in {AsArray(FrameIntensities(contour, sample_indices,
                                                           fluor, mask, e.params))} :
                         (\A k \in 1..Len(ints) : ints[k].m.tag = "none") =>
                            /\ CalculateIntensities(ed, fluor, mask, NoneResult,
                                                    e.params)[1] = NoneResult
                            /\ ~e.kept
                            /\ frame' = e.frame + 1
                            /\ bpc' = "running"
                 /\ \A eig \in EigCases :
                    \A fits \in {AsArray(FrameCurvatures(contour, sample_indices,
                                                        e.params, eig))} :
                       /\ Rejected(fits) =>
                             CalculateCurvature(ed, NoneResult, e.params,
                                                eig)[1] = NoneResult
                       /\ (e.eig = eig /\ Rejected(fits)) =>
                             (~e.kept /\ frame' = e.frame + 1 /\ bpc' = "running")
      ]_vars

\* A run in which every sample point of frame 0 was rejected by the intensity
\* measurement and frame 1 gave an entry.
C12_Witness ==
    /\ Len(processed) = 2
    /\ processed[1].comps = BorderFrame
    /\ processed[1].fluor_shape = processed[1].cell_shape
    /\ ~processed[1].kept
    /\ processed[1].eig = "none"
    /\ processed[2].kept
    /\ Len(all_curvatures) = 1
    /\ bpc = "results"

C18_ZeroCurvatureRetained ==
    \A j \in 1..Len(processed) :
      \A e \in {processed[j]} :
      \A ed \in {DetectEdge([shape |-> e.cell_shape, comps |-> e.comps])} :
        (/\ ed.tag = "ok"
         /\ e.fluor_shape = None
         /\ e.eig = "perp"
         /\ e.params.has_pixel_size) =>
            \A contour \in {AsArray(ed.contour)} :
               LET sample_indices == Linspace(Len(contour), e.params.n_samples)
                   PassesGates(idx) ==
                       LET segment == Take(contour,
                                           SegmentIndices(idx, e.params.segment_length,
                                                          Len(contour)))
                       IN /\ Len(segment) >= 3
                          /\ ~Straight(segment)
                          /\ SegmentNormal(segment) # <<0, 0>>
               IN (\E k \in 1..Len(sample_indices) : PassesGates(sample_indices[k]))
                     => e.kept

\* C27: whenever both stacks are loaded they have the same number of frames,
\* and current_frame and every value the frame spinner allows index a frame
\* of both.
C27_StacksAgreeOnFrames ==
    (cell_stack.tag = "ok" /\ fluor_stack.tag = "ok") =>
        /\ Len(cell_stack.frames) = Len(fluor_stack.frames)
        /\ current_frame < Len(cell_stack.frames)
        /\ current_frame < Len(fluor_stack.frames)
        /\ spinner_max < Len(cell_stack.frames)
        /\ spinner_max < Len(fluor_stack.frames)

\* C28: a load_cell_mask or load_fluorescence call that ends in the error
\* dialog leaves cell_stack, fluor_stack and the range of the frame spinner
\* as they were, and emits neither a loaded signal nor files_ready.
C28_FailedLoadChangesNothing ==
    [][(loads' = loads + 1 /\ "error" \in emitted') =>
          /\ cell_stack' = cell_stack
          /\ fluor_stack' = fluor_stack
          /\ spinner_max' = spinner_max
          /\ emitted' \cap {"cell_mask_loaded", "fluorescence_loaded", "files_ready"} = {}]_vars

\* C30: a run over a mask stack with no fluorescence loaded, whose loop has
\* taken the curvature-only path for every frame and collected curvature for
\* at least one, ends with the results window shown, not in the
\* 'Analysis failed' dialog.
C30_CurvatureOnlyRunShowsResults ==
    (/\ bpc \in {"results", "empty", "failed"}
     /\ fluor_stack = NoneResult
     /\ frame = total_frames
     /\ Len(processed) = total_frames
     /\ \A j \in 1..Len(processed) : processed[j].fluor_shape = None
     /\ all_curvatures # <<>>) => bpc = "results"

\* C15: the frames one run of analyze_stack has handled are frames 0, 1, ...
\* in this order, each once, and all of them were taken from the same stacks
\* (the same mask shape, fluorescence present for all or for none, of one
\* shape) and computed with the same AnalysisParameters, whatever handler ran
\* between two frames.
C15_RunIsolatedFromEvents ==
    /\ \A j \in 1..Len(processed) : processed[j].frame = j - 1
    /\ \A j, k \in 1..Len(processed) :
          /\ processed[j].params = processed[k].params
          /\ processed[j].cell_shape = processed[k].cell_shape
          /\ processed[j].fluor_shape = processed[k].fluor_shape

-----------------------------------------------------------------------------
(* EdgeDetector (edge_detection.py), detect_cell_edge of the standalone     *)
(* script, and an EdgeData built on an extracted contour                    *)
(*                                                                         *)
(* The arrays of this part are kept by value, in units of 1 / FloatUnit of *)
(* a pixel, so that an integer array and a float array holding the same    *)
(* numbers are equal, as numpy compares them, and the Savitzky-Golay       *)
(* weights divide exactly.                                                 *)

FloatUnit == 3 * 5 * 7

\* The largest smoothing window tried (the toolbar offers 0..50).
MaxWindow == 4

Windows == 0..MaxWindow

\* The frame indices handed to the per-frame operations.
Frames == 0..(MaxFrames - 1)

\* The values of an integer pixel array.
Values(c) == [i \in 1..Len(c) |-> <<FloatUnit * c[i][1], FloatUnit * c[i][2]>>]

\* dict.get(key): the entry, or None.
Get(d, k) == IF k \in DOMAIN d THEN d[k] ELSE None

\* d[key] = value
Put(d, k, v) == [j \in (DOMAIN d) \cup {k} |-> IF j = k THEN v ELSE d[j]]

\* A cell of exactly min_size pixels, and a longer one.
SmallCell == Rect(24, 33, 24, 33)

LongCell == Rect(22, 33, 30, 39)

\* The masks handed to the contour extraction: all-zero, a speck, a cell,
\* a cell with a speck.
EdgeMasks ==
    { [shape |-> FullShape, comps |-> c] :
        c \in { {}, {Speck}, {SmallCell}, {LongCell, Speck} } }

\* The frames of the stacks handed to detect_edges_stack.
StackMasks ==
    { [shape |-> FullShape, comps |-> c] : c \in { {}, {SmallCell} } }

\* A cleaning that removes nothing.
NotCleaned(comps) == comps

\* morphology.remove_small_objects(binary > 0, min_size): the components of
\* at least min_size pixels.
Cleaned(comps) == {r \in comps : RectArea(r) >= min_size}

\* The contour part of detect_edges and of detect_cell_edge: the squeezed
\* largest external contour of the cleaned image, or None.
LargestContour(mask) ==
    LET cleaned == Cleaned(mask.comps)
    IN IF cleaned # {} THEN AsArray(Values(RectContour(Largest(cleaned)))) ELSE None

\* The weights of scipy's savgol_filter for an odd window and the polynomial
\* order min(3, window - 1), from the centre outwards, and their divisor.
\* Window 3 with order 2 interpolates its three points.
SavgolCoeffs(window_size) ==
    IF window_size = 3 THEN [w |-> <<1, 0>>, den |-> 1]
    ELSE IF window_size = 5 THEN [w |-> <<17, 12, -3>>, den |-> 35]
    ELSE [w |-> <<7, 6, 3, -2>>, den |-> 21]

\* savgol_filter over the contour padded with mode='wrap', padding removed:
\* the periodic convolution of each coordinate with the weights.
SavgolWrapped(contour, window_size) ==
    LET co == SavgolCoeffs(window_size)
        h == window_size \div 2
        n == Len(contour)
        acc(i, c) == SeqSum([j \in 1..(2 * h + 1) |->
                        co.w[Abs(j - 1 - h) + 1] * At(contour, (i + j - 1 - h) % n)[c]])
    IN AsArray([i \in 1..n |-> <<acc(i - 1, 1) \div co.den, acc(i - 1, 2) \div co.den>>])

\* EdgeDetector.smooth_contour(contour, window_size)
EdgeSmoothContour(contour, window_size) ==
    IF window_size < 3 THEN contour
    ELSE SavgolWrapped(contour,
                       IF window_size % 2 = 0 THEN window_size + 1 ELSE window_size)

\* A smoothed entry that is filtered whatever the window.
FilteredAlways(contour, window) == SavgolWrapped(contour, 5)

\* update_smoothed_contour: the value stored for a contour that is not None.
SmoothedEntry(contour, window) ==
    IF window > 0 THEN EdgeSmoothContour(contour, window) ELSE contour

\* An update_smoothed_contour that leaves the dictionary as it finds it.
StaleSmoothed(cs, ss, window, frame_index) == ss

\* EdgeDetector.update_smoothed_contour(frame_index): the new dictionary.
UpdatedSmoothed(cs, ss, window, frame_index) ==
    IF Get(cs, frame_index) # None
    THEN Put(ss, frame_index, SmoothedEntry(cs[frame_index], window))
    ELSE ss

\* EdgeDetector.detect_edges(binary_image, frame_index) on the dictionaries
\* st, contour_points being the largest contour found or None: the
\* dictionaries afterwards and the contour returned.  Nothing in the body
\* raises on a two-dimensional mask, so the except branch (which returns the
\* same empty image and None) is not taken.
DetectInto(st, contour_points, frame_index, window) ==
    IF contour_points # None
    THEN [contours |-> Put(st.contours, frame_index, contour_points),
          smoothed_contours |->
              Put(st.smoothed_contours, frame_index,
                  SmoothedEntry(contour_points, window)),
          ret |-> [tag |-> "ok", contour |-> contour_points]]
    ELSE [contours |-> st.contours,
          smoothed_contours |-> st.smoothed_contours,
          ret |-> NoneResult]

\* The loop of detect_edges_stack from frame i on (i counts from 1).
RECURSIVE DetectAll(_, _, _, _)
DetectAll(stack, i, st, window) ==
    IF i > Len(stack) THEN st
    ELSE DetectAll(stack, i + 1,
                   CHOOSE r \in {DetectInto(st, CHOOSE c \in {LargestContour(stack[i])} : TRUE,
                                            i - 1, window)} : TRUE,
                   window)

\* EdgeDetector.detect_edges(binary_image, frame_index)
DetectEdges ==
    \E mask \in EdgeMasks, frame_index \in Frames :
     \E c \in {LargestContour(mask)} :
      \E r \in {DetectInto([contours |-> contours,
                            smoothed_contours |-> smoothed_contours],
                           c, frame_index, smoothing_window)} :
         /\ contours' = r.contours
         /\ smoothed_contours' = r.smoothed_contours
         /\ edge_result' = [op |-> "detect_edges", mask |-> mask,
                            frame_index |-> frame_index, ret |-> r.ret]
         /\ UNCHANGED <<smoothing_window, jointVars>>
         /\ UNCHANGED notEdge

\* EdgeDetector.detect_edges_stack(binary_stack): the dictionaries are
\* cleared, then every frame is extracted.
DetectEdgesStack ==
    \E n \in 1..MaxFrames :
      \E stack \in [1..n -> StackMasks] :
        \E r \in {DetectAll(stack, 1, [contours |-> <<>>, smoothed_contours |-> <<>>],
                            smoothing_window)} :
           /\ contours' = r.contours
           /\ smoothed_contours' = r.smoothed_contours
           /\ edge_result' = [op |-> "detect_edges_stack", ret |-> TRUE]
           /\ UNCHANGED <<smoothing_window, jointVars>>
           /\ UNCHANGED notEdge

\* EdgeDetector.set_smoothing(window_size): every stored contour is
\* smoothed again.
SetSmoothing ==
    \E window_size \in Windows :
       /\ smoothing_window' = window_size
       /\ smoothed_contours' =
             [k \in (DOMAIN smoothed_contours) \cup (DOMAIN contours) |->
                 UpdatedSmoothed(contours, smoothed_contours, window_size, k)[k]]
       /\ edge_result' = [op |-> "set_smoothing"]
       /\ UNCHANGED <<contours, jointVars>>
       /\ UNCHANGED notEdge

\* EdgeDetector.update_smoothed_contour(frame_index)
UpdateSmoothedContour ==
    \E frame_index \in Frames :
       /\ smoothed_contours' =
             UpdatedSmoothed(contours, smoothed_contours, smoothing_window, frame_index)
       /\ edge_result' = [op |-> "update_smoothed_contour"]
       /\ UNCHANGED <<contours, smoothing_window, jointVars>>
       /\ UNCHANGED notEdge

\* EdgeDetector.smooth_contour(contour, window_size) called on a stored
\* contour.
SmoothContourCall ==
    \E frame_index \in DOMAIN contours, window_size \in {0, MaxWindow} :
       /\ edge_result' =
             [op |-> "smooth_contour", frame_index |-> frame_index,
              window_size |-> window_size,
              ret |-> EdgeSmoothContour(contours[frame_index], window_size)]
       /\ UNCHANGED <<contours, smoothed_contours, smoothing_window, jointVars>>
       /\ UNCHANGED notEdge

\* EdgeDetector.get_contour(frame_index)
GetContour ==
    \E frame_index \in Frames :
       /\ edge_result' =
             [op |-> "get_contour", frame_index |-> frame_index,
              ret |-> IF smoothing_window > 0 /\ Get(smoothed_contours, frame_index) # None
                      THEN smoothed_contours[frame_index]
                      ELSE Get(contours, frame_index)]
       /\ UNCHANGED <<contours, smoothed_contours, smoothing_window, jointVars>>
       /\ UNCHANGED notEdge

\* detect_cell_edge(binary_image) of the standalone script, min_size = 100.
DetectCellEdge ==
    \E mask \in EdgeMasks :
      \E c \in {LargestContour(mask)} :
         /\ edge_result' =
               [op |-> "detect_cell_edge", mask |-> mask,
                ret |-> IF c # None THEN [tag |-> "ok", contour |-> c] ELSE NoneResult]
         /\ UNCHANGED <<contours, smoothed_contours, smoothing_window, jointVars>>
         /\ UNCHANGED notEdge

\* EdgeData(contour, edge_image) on the contour an extraction returned.
MakeEdgeData ==
    /\ edge_result.op \in {"detect_edges", "detect_cell_edge"}
    /\ edge_result.ret.tag = "ok"
    /\ edge_data' = [contour |-> edge_result.ret.contour,
                     smoothed_contour |-> None,
                     sigma |-> -1]
    /\ UNCHANGED <<cell_mask, fluor_data, fa_valid_indices, fluor_result,
                   ca_valid_indices, curv_result, coord_result, jpc>>
    /\ UNCHANGED <<params, batchVars, edgeVars, splineVars, tiffVars, probe>>

EInit ==
    /\ params \in {p \in BatchParamSets : p.has_pixel_size}
    /\ JointIdle
    /\ PanelIdle
    /\ LoopIdle
    /\ EdgeIdle
    /\ SplineIdle
    /\ TiffIdle
    /\ probe = [op |-> "init"]

ENext ==
    \/ DetectEdges
    \/ DetectEdgesStack
    \/ SetSmoothing
    \/ UpdateSmoothedContour
    \/ SmoothContourCall
    \/ GetContour
    \/ DetectCellEdge
    \/ MakeEdgeData
    \/ JSmoothContour

SpecEdge == EInit /\ [][ENext]_vars

-----------------------------------------------------------------------------
(* Properties of the contour extraction and conditioning *)

\* C7: smoothing with strength 0 leaves the contour unchanged.
\* smooth_contour with window 0 returns the contour it was given; while
\* smoothing_window is 0 the smoothed contour stored for every frame is the
\* frame's original contour and get_contour returns the original contour;
\* an EdgeData whose smooth_contour was last called with sigma 0 holds a
\* smoothed contour equal point for point to its contour, however many
\* times the calls were made.
C7_ZeroSmoothingIsIdentity ==
    /\ (edge_result.op = "smooth_contour" /\ edge_result.window_size = 0) =>
          edge_result.ret = contours[edge_result.frame_index]
    /\ smoothing_window = 0 =>
          /\ \A f \in DOMAIN contours : Get(smoothed_contours, f) = contours[f]
          /\ edge_result.op = "get_contour" =>
                edge_result.ret = Get(contours, edge_result.frame_index)
    /\ (edge_data.contour # None /\ edge_data.sigma = 0) =>
          edge_data.smoothed_contour = edge_data.contour

\* Every frame holds a contour and its smoothed copy under window 0,
\* get_contour has just returned one, and an EdgeData has been smoothed with
\* sigma 0.
C7_Witness ==
    /\ smoothing_window = 0
    /\ DOMAIN contours = Frames
    /\ DOMAIN smoothed_contours = Frames
    /\ edge_result.op = "get_contour"
    /\ edge_result.ret # None
    /\ edge_data.contour # None
    /\ edge_data.sigma = 0
    /\ edge_data.smoothed_contour = edge_data.contour

\* C8: for a mask without a component of min_size pixels (the all-zero mask
\* among them) detect_edges and detect_cell_edge return no contour, and
\* return it normally: the outcome is None, not a contour and not an
\* exception.
C8_NoCellNoContour ==
    (/\ edge_result.op \in {"detect_edges", "detect_cell_edge"}
     /\ \A r \in edge_result.mask.comps : RectArea(r) < min_size)
        => edge_result.ret = NoneResult

\* detect_edges has met a mask holding only a speck, on a detector that
\* already stores a contour.
C8_Witness ==
    /\ edge_result.op = "detect_edges"
    /\ edge_result.mask.comps = {Speck}
    /\ edge_result.ret = NoneResult
    /\ contours # <<>>

\* C24: after any sequence of detect_edges, detect_edges_stack and
\* set_smoothing calls, smoothed_contours has exactly the frames of contours,
\* the entry of each frame is the smoothing of the frame's current contour
\* with the current smoothing_window (the contour itself for window 0), and
\* that is what get_contour returns for the frame.
C24_SmoothedFollowsContourAndWindow ==
    /\ DOMAIN smoothed_contours = DOMAIN contours
    /\ \A f \in DOMAIN contours :
          smoothed_contours[f] = SmoothedEntry(contours[f], smoothing_window)
    /\ (edge_result.op = "get_contour" /\ edge_result.frame_index \in DOMAIN contours) =>
          edge_result.ret = SmoothedEntry(contours[edge_result.frame_index],
                                          smoothing_window)

\* Every frame holds a contour, the window is one that filters, and
\* get_contour has returned a contour that differs from the original.
C24_Witness ==
    /\ smoothing_window >= 3
    /\ DOMAIN contours = Frames
    /\ edge_result.op = "get_contour"
    /\ edge_result.ret # None
    /\ edge_result.ret # contours[edge_result.frame_index]
    /\ \E f, g \in DOMAIN contours : contours[f] # contours[g]

\* C25: after detect_edges(mask, f) has returned no contour, the detector
\* holds no contour for frame f: get_contour(f) returns None.
C25_NoContourReplacesOld ==
    (edge_result.op = "detect_edges" /\ edge_result.ret = NoneResult) =>
        /\ Get(contours, edge_result.frame_index) = None
        /\ Get(smoothed_contours, edge_result.frame_index) = None

-----------------------------------------------------------------------------
(* The spline CurvatureAnalyzer of curvature.py                             *)
(*                                                                         *)
(* A contour handed to it is a float array; its coordinates are kept in    *)
(* units of 1 / SplineUnit of the contour's length unit.  The spline that  *)
(* FITPACK fits is not computed: the model keeps what decides the code's   *)
(* branches, namely whether splprep raises, whether the fit is the         *)
(* constant curve, and for each evaluated parameter whether the speed is   *)
(* above the gate and which sign the curvature has.                        *)

SplineUnit == 10 * 10 * 10

\* resample_contour(contour, target_points=500), curvature.py:11
target_points == 500

\* The most measurement points handed over.
MaxPoints == 2

\* A contour of two points.
TwoPoints == << <<0, 0>>, <<SplineUnit, 0>> >>

\* Three copies of one point.
RepeatedPoint == [i \in 1..3 |-> <<5 * SplineUnit, 5 * SplineUnit>>]

\* A triangle with legs of 0.008: a cell outline given in a unit in which
\* the cell is a hundredth across.
TinyTriangle == << <<0, 0>>, <<8, 0>>, <<0, 8>> >>

\* The pixel contour of SmallCell.
PixelContour ==
    LET c == RectContour(SmallCell)
    IN [i \in 1..Len(c) |-> <<SplineUnit * c[i][1], SplineUnit * c[i][2]>>]

SplineContours == {None, TwoPoints, RepeatedPoint, TinyTriangle, PixelContour}

\* measurement_points: up to MaxPoints points of the contour.  None and the
\* empty list, which take the same branch, are both the empty sequence.
MeasurementPoints ==
    UNION { [1..n -> {<<24 * SplineUnit, 24 * SplineUnit>>}] : n \in 0..MaxPoints }

\* The squared diagonal of the bounding box of the contour.
BoxDiagSq(contour) ==
    LET xs == {contour[i][1] : i \in 1..Len(contour)}
        ys == {contour[i][2] : i \in 1..Len(contour)}
        span(s) == (CHOOSE a \in s : \A b \in s : a >= b)
                   - (CHOOSE a \in s : \A b \in s : a <= b)
    IN span(xs) * span(xs) + span(ys) * span(ys)

\* splprep([x, y], s=0.1, per=True, k=3) on the resampled, Gaussian-smoothed
\* contour.  With every point the same the parameter has no length and
\* splprep raises.  The resampled and smoothed points are averages of
\* contour points, so each lies within the bounding-box diagonal of their
\* mean: when target_points * diagonal^2 <= s the residual of the constant
\* curve is within s and FITPACK returns that constant curve (all
\* coefficients equal).  Otherwise the fit is a curve proper.
SplineFit(contour) ==
    IF \A i \in 1..Len(contour) : contour[i] = contour[1] THEN "raises"
    ELSE IF BoxDiagSq(contour) <= (SplineUnit * SplineUnit) \div (10 * target_points)
         THEN "constant"
    ELSE "regular"

\* What splev gives at one parameter: "stationary" (dx_dt = dy_dt = 0, the
\* denominator is 0), or a denominator above 1e-10 with the cross product
\* positive, negative or zero.  The constant curve is stationary everywhere;
\* a curve proper is taken to move at every evaluated parameter.
SplevCases(fit) ==
    IF fit = "constant" THEN {"stationary"} ELSE {"pos", "neg", "flat"}

\* The outcomes at the n evaluated parameters: one case each when the
\* parameters are those of the measurement points, the same case at all of
\* them on the regular grid of len(x) parameters.
SampleCases(fit, n, measured) ==
    IF measured THEN [1..n -> SplevCases(fit)]
    ELSE { [k \in 1..n |-> c] : c \in SplevCases(fit) }

\* valid_indices = denominator > 1e-10
DenominatorValid(case) == case # "stationary"

\* curvature = np.zeros_like(x_new); curvature[valid_indices] = ...: the
\* entry of one parameter, as the sign of its value.
CurvatureEntry(case) ==
    IF ~DenominatorValid(case) THEN 0
    ELSE IF case = "pos" THEN 1
    ELSE IF case = "neg" THEN -1
    ELSE 0

\* CurvatureAnalyzer.calculate_curvature(contour, frame_index,
\*     measurement_points) of curvature.py
SplineCalculateCurvature ==
    \E contour \in SplineContours, frame_index \in Frames,
       measurement_points \in MeasurementPoints :
      IF contour = None \/ Len(contour) < 3 \/ SplineFit(contour) = "raises"
      THEN /\ spline_result' = [op |-> "calculate_curvature", contour |-> contour,
                                frame_index |-> frame_index, ret |-> NoneResult]
           /\ UNCHANGED <<curvature, spline_contours>>
           /\ UNCHANGED notSpline
      ELSE \E measured \in {measurement_points # None /\ Len(measurement_points) > 0} :
           \E n \in {IF measured THEN Len(measurement_points) ELSE target_points} :
           \E cases \in SampleCases(SplineFit(contour), n, measured) :
           \E values \in {[k \in 1..n |-> CurvatureEntry(cases[k])]} :
              /\ curvature' = Put(curvature, frame_index, values)
              /\ spline_contours' = Put(spline_contours, frame_index,
                                        [fit |-> SplineFit(contour), points |-> n])
              /\ spline_result' =
                    [op |-> "calculate_curvature", contour |-> contour,
                     frame_index |-> frame_index,
                     valid_indices |-> [k \in 1..n |-> DenominatorValid(cases[k])],
                     ret |-> [tag |-> "ok", curvature |-> values]]
              /\ UNCHANGED notSpline

\* CurvatureAnalyzer.get_curvature_data(frame_index) of curvature.py
GetCurvatureData ==
    \E frame_index \in Frames :
       /\ spline_result' = [op |-> "get_curvature_data", frame_index |-> frame_index,
                            ret |-> <<Get(curvature, frame_index),
                                      Get(spline_contours, frame_index)>>]
       /\ UNCHANGED <<curvature, spline_contours>>
       /\ UNCHANGED notSpline

SInit ==
    /\ params \in {p \in BatchParamSets : p.has_pixel_size}
    /\ JointIdle
    /\ PanelIdle
    /\ LoopIdle
    /\ EdgeIdle
    /\ SplineIdle
    /\ TiffIdle
    /\ probe = [op |-> "init"]

SNext ==
    \/ SplineCalculateCurvature
    \/ GetCurvatureData

SpecSpline == SInit /\ [][SNext]_vars

\* C4: a curvature array that calculate_curvature of curvature.py returns
\* holds an entry only for parameters that passed the validity gate: no
\* entry (a 0) stands for a point whose denominator failed it.
C4_InvalidPointsDropped ==
    (/\ spline_result.op = "calculate_curvature"
     /\ spline_result.ret.tag = "ok")
        => \A k \in 1..Len(spline_result.ret.curvature) :
               spline_result.valid_indices[k]

\* C26: the data stored for a frame is that of the latest calculate_curvature
\* call for the frame: the array that call returned, and no data when that
\* call failed (returned None).
C26_StoredDataIsLatestRun ==
    spline_result.op = "calculate_curvature" =>
        IF spline_result.ret = NoneResult
        THEN /\ Get(curvature, spline_result.frame_index) = None
             /\ Get(spline_contours, spline_result.frame_index) = None
        ELSE Get(curvature, spline_result.frame_index) = spline_result.ret.curvature

-----------------------------------------------------------------------------
(* TiffHandler (tiff_handler.py).  A stack is kept as the sequence of its   *)
(* frame numbers; a single image is a stack of one frame.                  *)

\* The longest stack a file handed to TiffHandler holds.
MaxStack == 3

\* tifffile.imread(file_path), with "stack[np.newaxis, ...]" for ndim 2.
TiffStacks == {[k \in 1..n |-> k - 1] : n \in 1..MaxStack}

\* TiffHandler.load_cell_stack(file_path): the read raises and False is
\* returned, or the stack and its length are stored.
LoadCellStack ==
    /\ \/ /\ tiff_result' = [op |-> "load_cell_stack", ret |-> FALSE]
          /\ UNCHANGED tiff_handler
       \/ \E stack \in TiffStacks :
             /\ tiff_handler' = [tiff_handler EXCEPT !.cell_stack = stack,
                                                      !.n_frames = Len(stack)]
             /\ tiff_result' = [op |-> "load_cell_stack", ret |-> TRUE]
    /\ UNCHANGED <<params, jointVars, batchVars, edgeVars, splineVars, probe>>

\* TiffHandler.load_piezo_stack(file_path)
LoadPiezoStack ==
    /\ \/ /\ tiff_result' = [op |-> "load_piezo_stack", ret |-> FALSE]
          /\ UNCHANGED tiff_handler
       \/ \E stack \in TiffStacks :
             /\ tiff_handler' = [tiff_handler EXCEPT !.piezo_stack = stack]
             /\ tiff_result' = [op |-> "load_piezo_stack", ret |-> TRUE]
    /\ UNCHANGED <<params, jointVars, batchVars, edgeVars, splineVars, probe>>

\* TiffHandler.get_current_frame(): (None, None) without both stacks, the
\* two frames, or the IndexError of an index one of the stacks lacks.
GetCurrentFrame ==
    /\ tiff_result' =
          [op |-> "get_current_frame",
           ret |-> IF tiff_handler.cell_stack = None \/ tiff_handler.piezo_stack = None
                   THEN NoneResult
                   ELSE IF tiff_handler.current_frame >= Len(tiff_handler.cell_stack)
                           \/ tiff_handler.current_frame >= Len(tiff_handler.piezo_stack)
                        THEN Raised
                   ELSE [tag |-> "ok",
                         cell |-> At(tiff_handler.cell_stack, tiff_handler.current_frame),
                         piezo |-> At(tiff_handler.piezo_stack, tiff_handler.current_frame)]]
    /\ UNCHANGED tiff_handler
    /\ UNCHANGED <<params, jointVars, batchVars, edgeVars, splineVars, probe>>

\* TiffHandler.next_frame()
NextFrame ==
    /\ tiff_handler' =
          IF tiff_handler.n_frames > 0
          THEN [tiff_handler EXCEPT !.current_frame =
                   (tiff_handler.current_frame + 1) % tiff_handler.n_frames]
          ELSE tiff_handler
    /\ tiff_result' = [op |-> "next_frame", before |-> tiff_handler.current_frame,
                       ret |-> tiff_handler.n_frames > 0]
    /\ UNCHANGED <<params, jointVars, batchVars, edgeVars, splineVars, probe>>

\* TiffHandler.previous_frame()
PreviousFrame ==
    /\ tiff_handler' =
          IF tiff_handler.n_frames > 0
          THEN [tiff_handler EXCEPT !.current_frame =
                   (tiff_handler.current_frame - 1) % tiff_handler.n_frames]
          ELSE tiff_handler
    /\ tiff_result' = [op |-> "previous_frame", before |-> tiff_handler.current_frame,
                       ret |-> tiff_handler.n_frames > 0]
    /\ UNCHANGED <<params, jointVars, batchVars, edgeVars, splineVars, probe>>

\* TiffHandler.set_frame(frame_number)
SetFrame ==
    /\ \E frame_number \in -1..MaxStack :
          LET in_range == 0 <= frame_number /\ frame_number < tiff_handler.n_frames
          IN /\ tiff_handler' = IF in_range
                                THEN [tiff_handler EXCEPT !.current_frame = frame_number]
                                ELSE tiff_handler
             /\ tiff_result' = [op |-> "set_frame", frame_number |-> frame_number,
                                before |-> tiff_handler.current_frame,
                                ret |-> in_range]
    /\ UNCHANGED <<params, jointVars, batchVars, edgeVars, splineVars, probe>>

TInit ==
    /\ params \in {p \in BatchParamSets : p.has_pixel_size}
    /\ JointIdle
    /\ PanelIdle
    /\ LoopIdle
    /\ EdgeIdle
    /\ SplineIdle
    /\ TiffIdle
    /\ probe = [op |-> "init"]

TNext ==
    \/ LoadCellStack
    \/ LoadPiezoStack
    \/ GetCurrentFrame
    \/ NextFrame
    \/ PreviousFrame
    \/ SetFrame

SpecTiff == TInit /\ [][TNext]_vars

\* C29: whenever both stacks are loaded, current_frame is at least 0, below
\* n_frames and an index of both stacks, and get_current_frame does not
\* raise; set_frame with a value outside 0..n_frames-1 returns False and
\* leaves current_frame as it was; next_frame and previous_frame step
\* current_frame by one modulo n_frames.
C29_CurrentFrameIndexesBothStacks ==
    /\ (tiff_handler.cell_stack # None /\ tiff_handler.piezo_stack # None) =>
          /\ 0 <= tiff_handler.current_frame
          /\ tiff_handler.current_frame < tiff_handler.n_frames
          /\ tiff_handler.current_frame < Len(tiff_handler.cell_stack)
          /\ tiff_handler.current_frame < Len(tiff_handler.piezo_stack)
    /\ tiff_result.op = "get_current_frame" => tiff_result.ret # Raised
    /\ (/\ tiff_result.op = "set_frame"
        /\ (tiff_result.frame_number < 0
            \/ tiff_result.frame_number >= tiff_handler.n_frames)) =>
          /\ tiff_result.ret = FALSE
          /\ tiff_handler.current_frame = tiff_result.before
    /\ (tiff_result.op = "next_frame" /\ tiff_handler.n_frames > 0) =>
          tiff_handler.current_frame = (tiff_result.before + 1) % tiff_handler.n_frames
    /\ (tiff_result.op = "previous_frame" /\ tiff_handler.n_frames > 0) =>
          tiff_handler.current_frame = (tiff_result.before - 1) % tiff_handler.n_frames

-----------------------------------------------------------------------------
(* Sample indices, windows and the circle fit: one call on drawn inputs     *)

\* The longest contour tried.
MaxContour == 36

\* A synthetic circle of radius 25 about the origin, through the lattice
\* points on it, ordered counter-clockwise in (x, y); its inside is the mask.
CircleContour ==
    << <<25, 0>>, <<24, 7>>, <<20, 15>>, <<15, 20>>, <<7, 24>>,
       <<0, 25>>, <<-7, 24>>, <<-15, 20>>, <<-20, 15>>, <<-24, 7>>,
       <<-25, 0>>, <<-24, -7>>, <<-20, -15>>, <<-15, -20>>, <<-7, -24>>,
       <<0, -25>>, <<7, -24>>, <<15, -20>>, <<20, -15>>, <<24, -7>> >>

\* What the eigenvector of the fit comes to.  gate: the leading coefficient
\* is near zero ("line"), the radicand is <= 0, the radius is below
\* min_radius ("small"), far above the size of the cell ("huge"), or between
\* the two ("ok").  centre: the fitted centre lies, from the centroid of the
\* window, towards the inside of the contour, away from it, or along the
\* chord.  A, and with it the centre, is a sum over the points of the window:
\* it does not depend on the order the points come in.
Fits == [gate : {"line", "radicand", "small", "huge", "ok"},
         centre : {"inside", "outside", "along"}]

\* The gates of _fit_circle_to_segment and the sign of
\* np.dot(to_center / to_center_norm, normal), as a case of the fit, for a
\* window whose inside is in the direction inward.  to_center is
\* center_point - segment.mean(axis=0) up to a positive factor.
EigCaseOf(segment, fit, inward) ==
    LET normal == SegmentNormal(segment)
        to_center == IF fit.centre = "inside" THEN inward
                     ELSE IF fit.centre = "outside" THEN <<-inward[1], -inward[2]>>
                     ELSE <<segment[Len(segment)][1] - segment[1][1],
                            segment[Len(segment)][2] - segment[1][2]>>
        dot == to_center[1] * normal[1] + to_center[2] * normal[2]
    IN IF fit.gate \in {"line", "radicand", "small"} THEN fit.gate
       ELSE IF dot < 0 THEN "pos"
       ELSE IF dot > 0 THEN "neg"
       ELSE "perp"

\* _fit_circle_to_segment(points[indices]) on a window of the circle, the
\* contour ordered one way or the other.
FitCircle ==
    /\ probe.op = "init"
    /\ \E order \in {"ccw", "cw"}, idx \in 0..(Len(CircleContour) - 1),
          segment_length \in {5, 9}, fit \in Fits :
          LET n == Len(CircleContour)
              contour == IF order = "ccw" THEN CircleContour
                         ELSE [j \in 1..n |-> CircleContour[n + 1 - j]]
              segment == Take(contour, SegmentIndices(idx, segment_length, n))
              inward == <<-SeqSum([j \in 1..Len(segment) |-> segment[j][1]]),
                          -SeqSum([j \in 1..Len(segment) |-> segment[j][2]])>>
          IN probe' = [op |-> "fit_circle", order |-> order, idx |-> idx,
                       segment |-> segment, fit |-> fit, inward |-> inward,
                       normal |-> SegmentNormal(segment),
                       ret |-> FitCircleToSegment(
                                  segment, [params EXCEPT !.segment_length = segment_length],
                                  EigCaseOf(segment, fit, inward))]
    /\ UNCHANGED <<params, jointVars, batchVars, edgeVars, splineVars, tiffVars>>

\* np.arange(idx - half_segment, idx + half_segment + 1) % n_points, as
\* calculate_curvature, calculate_intensities, analyze_stack and
\* get_segment_indices build it, for segment lengths of segment_slider
\* (5..20) and the edge_segment of AnalysisParameters (10).
SegmentWindow ==
    /\ probe.op = "init"
    /\ \E n_points \in 1..MaxContour, segment_length \in {5, 9, 10, 20} :
          \E idx \in 0..(n_points - 1) :
             probe' = [op |-> "window", n_points |-> n_points, idx |-> idx,
                       segment_length |-> segment_length,
                       ret |-> SegmentIndices(idx, segment_length, n_points)]
    /\ UNCHANGED <<params, jointVars, batchVars, edgeVars, splineVars, tiffVars>>

\* The initial sample indices of a contour of n_points points:
\* generate_sampling_points, and the np.linspace of calculate_curvature and
\* of analyze_stack, for sample counts of samples_slider (20..150).
SampleIndices ==
    /\ probe.op = "init"
    /\ \E n_points \in 1..MaxContour, n_samples \in {20, 40},
          site \in {"generate_sampling_points", "calculate_curvature", "analyze_stack"} :
          LET p == [params EXCEPT !.n_samples = n_samples]
              ed == [contour |-> [k \in 1..n_points |-> <<k, 0>>],
                     smoothed_contour |-> None]
          IN probe' = [op |-> "sampling", site |-> site, n_points |-> n_points,
                       n_samples |-> n_samples,
                       ret |-> IF site = "generate_sampling_points"
                               THEN GenerateSamplingPoints(ed, p)
                               ELSE Linspace(n_points, p.n_samples)]
    /\ UNCHANGED <<params, jointVars, batchVars, edgeVars, splineVars, tiffVars>>

\* IntensityAnalyzer.__init__: the parameters of the normal and of its
\* interior check.
IntensityDefaults == [normal_window |-> 5, check_depth |-> 10, check_points |-> 10]

\* int(round(c + dist * a / sqrt(s))) for the k-th distance of
\* np.linspace(0, check_depth, check_points): the integer r with
\* (r - c) - 1/2 <= dist * a / sqrt(s) < (r - c) + 1/2.  For an integer c,
\* an integer direction (a, b) with s = a * a + b * b and these distances the
\* value is never half-way between two integers.
RoundAlong(c, a, s, k) ==
    LET den == IntensityDefaults.check_points - 1
        num == 2 * k * IntensityDefaults.check_depth * a
        \* L * sqrt(s) <= num
        RootLe(L) == IF L <= 0 THEN num >= 0 \/ L * L * s >= num * num
                     ELSE num >= 0 /\ L * L * s <= num * num
        reach == IntensityDefaults.check_depth + 1
    IN CHOOSE r \in (c - reach)..(c + reach) :
          /\ RootLe(2 * den * (r - c) - den)
          /\ ~RootLe(2 * den * (r - c) + den)

\* IntensityAnalyzer.check_vector_direction for the direction n of length
\* sqrt(s): <<interior_points, total_valid_points>>; the ratio returned is
\* their quotient, and 0 when no probe is in the image.
CheckVectorDirection(point, n, s, binary_mask) ==
    LET probes == [k \in 0..(IntensityDefaults.check_points - 1) |->
                      <<RoundAlong(point[1], n[1], s, k), RoundAlong(point[2], n[2], s, k)>>]
        valid == {k \in DOMAIN probes : InImage(binary_mask.shape, probes[k][1], probes[k][2])}
        interior == {k \in valid : MaskAt(binary_mask, probes[k][1], probes[k][2])}
    IN <<Cardinality(interior), Cardinality(valid)>>

\* IntensityAnalyzer.calculate_normal_vector.  The normal returned is the
\* integer direction n of length sqrt(s) (the code divides it by that
\* length); path names the return statement taken: "vote" (lines 107-110),
\* "fallback" (line 133) or "zero" (line 135).
NormalVector(points, index, binary_mask, use_interior_check) ==
    LET n_points == Len(points)
        half_window == IntensityDefaults.normal_window \div 2
        window_points == [j \in 1..(2 * half_window + 1) |->
                             At(points, (index - half_window + (j - 1)) % n_points)]
        \* np.mean(np.diff(.)) is (last - first) / (len - 1)
        dx == window_points[Len(window_points)][1] - window_points[1][1]
        dy == window_points[Len(window_points)][2] - window_points[1][2]
        normal1 == <<dy, -dx>>
        normal2 == <<-dy, dx>>
        s == dx * dx + dy * dy
        point == At(points, index)
        ratio1 == CheckVectorDirection(point, normal1, s, binary_mask)
        ratio2 == CheckVectorDirection(point, normal2, s, binary_mask)
        \* ratio > 0.6
        Good(ratio) == ratio[2] > 0 /\ 10 * ratio[1] > 6 * ratio[2]
        test_point1 == StepAlong(<<0, 0>>, normal1, s, test_dist)
        test_point2 == StepAlong(<<0, 0>>, normal2, s, test_dist)
        Val(t) == IF InImage(binary_mask.shape, point[1] + t[1], point[2] + t[2])
                     /\ MaskAt(binary_mask, point[1] + t[1], point[2] + t[2])
                  THEN 1 ELSE 0
        val1 == Val(test_point1)
        val2 == Val(test_point2)
        out(path, choice) == [path |-> path, choice |-> choice,
                              normal |-> IF choice = 1 THEN normal1 ELSE normal2,
                              norm_sq |-> s, ratio1 |-> ratio1, ratio2 |-> ratio2,
                              val1 |-> val1, val2 |-> val2]
    IN IF s = 0 THEN [path |-> "zero", choice |-> 0, normal |-> <<0, 0>>, norm_sq |-> 0,
                      ratio1 |-> <<0, 0>>, ratio2 |-> <<0, 0>>, val1 |-> 0, val2 |-> 0]
       ELSE IF use_interior_check /\ Good(ratio1) THEN out("vote", 1)
       ELSE IF use_interior_check /\ Good(ratio2) THEN out("vote", 2)
       ELSE out("fallback", IF val1 > val2 THEN 1 ELSE 2)

\* A cell of two arms, 10 pixels wide each, on either side of a cleft one
\* pixel wide, joined below it.
CleftCell == {Rect(21, 30, 20, 40), Rect(32, 41, 20, 40), Rect(21, 41, 41, 45)}

\* The masks and point arrays calculate_normal_vector is tried on: the
\* contour of the square cell and of the thin cell, and the left wall of the
\* cleft, top to bottom.
NormalInputs ==
    { [binary_mask |-> [shape |-> FullShape, comps |-> {SquareCell}],
       points |-> RectContour(SquareCell)],
      [binary_mask |-> [shape |-> FullShape, comps |-> {BarCell}],
       points |-> RectContour(BarCell)],
      [binary_mask |-> [shape |-> FullShape, comps |-> CleftCell],
       points |-> [j \in 1..9 |-> <<30, 21 + j>>]] }

\* calculate_normal_vector(points, index, binary_mask)
CalculateNormalVector ==
    /\ probe.op = "init"
    /\ \E input \in NormalInputs, use_interior_check \in BOOLEAN :
          \E index \in 0..(Len(input.points) - 1) :
             probe' = [op |-> "normal_vector", index |-> index,
                       binary_mask |-> input.binary_mask,
                       use_interior_check |-> use_interior_check,
                       ret |-> NormalVector(input.points, index, input.binary_mask,
                                            use_interior_check)]
    /\ UNCHANGED <<params, jointVars, batchVars, edgeVars, splineVars, tiffVars>>

FInit ==
    /\ params \in BatchParamSets
    /\ JointIdle
    /\ PanelIdle
    /\ LoopIdle
    /\ EdgeIdle
    /\ SplineIdle
    /\ TiffIdle
    /\ probe = [op |-> "init"]

FNext ==
    \/ CalculateNormalVector
    \/ FitCircle
    \/ SegmentWindow
    \/ SampleIndices

SpecFit == FInit /\ [][FNext]_vars

\* C13: on the circle, with the fitted centre inside it, every valid
\* curvature is positive, whichever way round the contour is ordered.
C13_CircleCurvaturePositive ==
    (/\ probe.op = "fit_circle"
     /\ probe.fit.centre = "inside"
     /\ probe.ret.tag = "ok"
     /\ probe.ret.value # 0)
        => probe.ret.value > 0

\* C14: the sign of a valid curvature follows the inward normal of the
\* window, the chord-rotated normal turned to the inside of the contour: a
\* fitted centre on the side the inward normal points to gives a negative
\* curvature, one on the other side a positive curvature.
C14_SignAgainstInwardNormal ==
    (/\ probe.op = "fit_circle"
     /\ probe.ret.tag = "ok"
     /\ probe.ret.value # 0)
        => LET along == probe.normal[1] * probe.inward[1]
                           + probe.normal[2] * probe.inward[2]
               inward_normal == IF along > 0 THEN probe.normal
                                ELSE <<-probe.normal[1], -probe.normal[2]>>
               side == inward_normal[1] * probe.inward[1]
                          + inward_normal[2] * probe.inward[2]
           IN /\ (probe.fit.centre = "inside" /\ side > 0) => probe.ret.value < 0
              /\ (probe.fit.centre = "outside" /\ side > 0) => probe.ret.value > 0

\* C17: a fit that fails a validity gate (leading coefficient near zero,
\* radicand not positive, radius below min_radius, radius far above the size
\* of the cell) gives no valid curvature.
C17_GateFailureIsInvalid ==
    (/\ probe.op = "fit_circle"
     /\ probe.ret.tag = "ok"
     /\ probe.fit.gate # "ok")
        => probe.ret.value = 0

\* C19: the window of a sample index holds exactly segment_length indices,
\* all in 0..n_points-1, consecutive modulo n_points, centred on the index
\* and without repetition.
C19_WindowIsSegmentLengthLong ==
    probe.op = "window" =>
        LET w == probe.ret
        IN /\ Len(w) = probe.segment_length
           /\ \A j \in 1..Len(w) : w[j] \in 0..(probe.n_points - 1)
           /\ \A j \in 1..(Len(w) - 1) : w[j + 1] = (w[j] + 1) % probe.n_points
           /\ w[(probe.segment_length \div 2) + 1] = probe.idx
           /\ \A j, k \in 1..Len(w) : j # k => w[j] # w[k]

\* C20: the initial sample indices lie in 0..n_points-1, are strictly
\* increasing (so pairwise distinct), and consecutive gaps differ by at most
\* one, also when n_samples exceeds n_points.
C20_SampleIndicesEvenAndDistinct ==
    probe.op = "sampling" =>
        LET s == probe.ret
        IN /\ \A j \in 1..Len(s) : s[j] \in 0..(probe.n_points - 1)
           /\ \A j \in 1..(Len(s) - 1) : s[j] < s[j + 1]
           /\ \A j, k \in 1..(Len(s) - 1) :
                 Abs((s[j + 1] - s[j]) - (s[k + 1] - s[k])) <= 1

\* C23: with the interior check enabled, calculate_normal_vector returns by
\* the vote a candidate whose interior ratio exceeds 60% when the vote decides,
\* and takes the single-probe comparison at the test distance exactly when it
\* does not: neither ratio exceeds 60%, or the two ratios are equal.
C23_VoteThenSingleProbe ==
    (probe.op = "normal_vector" /\ probe.use_interior_check /\ probe.ret.path # "zero") =>
        LET r == probe.ret
            Num(ratio) == IF ratio[2] = 0 THEN 0 ELSE ratio[1]
            Den(ratio) == IF ratio[2] = 0 THEN 1 ELSE ratio[2]
            Exceeds(ratio) == 10 * Num(ratio) > 6 * Den(ratio)
            tied == Num(r.ratio1) * Den(r.ratio2) = Num(r.ratio2) * Den(r.ratio1)
            decided == (Exceeds(r.ratio1) \/ Exceeds(r.ratio2)) /\ ~tied
        IN IF decided
           THEN /\ r.path = "vote"
                /\ Exceeds(IF r.choice = 1 THEN r.ratio1 ELSE r.ratio2)
           ELSE /\ r.path = "fallback"
                /\ r.choice = (IF r.val1 > r.val2 THEN 1 ELSE 2)

=============================================================================
